---- MODULE Spec2Model ----
(***************************************************************************)
(* A model of the durable orchestration core of LitFlow:                   *)
(*   - CorpusIngestWorkflow  (fan-out / fan-in over Paper Process children) *)
(*   - the provider failover loops (chunk-embed, query-embed, LLM)          *)
(*   - PaperProcessWorkflow  (linear per-paper pipeline)                    *)
(* Workflow code is single-threaded: one action covers the code that runs   *)
(* between two suspension points (an awaited activity, child or sleep).     *)
(***************************************************************************)
EXTENDS Integers, Sequences, FiniteSets, TLC

\* ------------------------------------------------------------------ bounds
MaxPaths == 4
MaxInputChildren == 3
MaxProviders == 2
MaxCalls == 2
MaxWindow == 6
MaxWriters == 2
ContentLen == 2
MaxHist == 2
MaxPapers == 2
MaxRuns == 2
MaxBackfillPapers == 2
MaxChunks == 2
MaxParsed == 1

MaxTopics == 2

MaxFiles == 3

MaxKGPapers == 3
MaxBatch == 2
MaxUpserts == 2
MaxCorpora == 2
CfgChunkSize == 3
CfgChunkOverlap == 1

\* ------------------------------------------------------- program constants
DefaultCooldownSeconds == 900
RateDisableSeconds == 120
PermanentDisableSeconds == 60
ReducedWindow == 5

\* --------------------------------------------------------------- variables
VARIABLES
    \* CorpusIngestWorkflow
    ipc,            \* position in CorpusIngestWorkflow
    inMax,          \* input.MaxConcurrentChildren
    nPaths,         \* len(paths)
    loopI,          \* the batch loop's i
    futIdx,         \* index of the future the fan-in loop awaits next
    child,          \* child[c]: state of the child started for paths[c-1]
    progress,       \* CorpusIngestProgress: Total, Done, Failed, PerPaper
    iResult,        \* the workflow's result string
    iErr,           \* the workflow's error (TRUE = a workflow-level error)
    summary,        \* outcome of WriteCorpusSummaryActivity
    batchOf,        \* history: the value of i when child c was started
    awaited,        \* history: the children whose future has been read
    \* provider failover (callEmbedWithFailover, callEmbedQueryWithFailover,
    \* callLLMWithFailover)
    fop,            \* the running operation: "embed", "query" or "llm"
    fpc,            \* "loop": at the loop head, "await": an activity runs
    providerCount,  \* providerCount as the loop uses it
    preferredIdx,   \* preferredIdx (embed)
    strict,         \* strict (embed)
    cooldown,       \* cooldown, in seconds
    attempt,        \* the loop's attempt
    retryCounts,    \* retryCounts[key], by the provider index of the key
    disabledUntil,  \* state.disabledUntil[idx], in seconds after workflow.Now
                    \* (0: the key is absent or its time has passed)
    curIdx,         \* input.ProviderIndex of the activity in flight
    lastErr,        \* lastErr: "nil" or the class of the last error
    fResult,        \* what the call returned: "ok", an error, or "none"
    script,         \* how each provider answers (environment)
    invocations,    \* history: provider activities invoked in this call
    auditLog,       \* history: the LogLLMCallActivity rows of the call
    sleeps,         \* history: the workflow.Sleep durations of the call
    disableLog,     \* history: the disableProviderUntil calls
    maxUntil,       \* history: the latest time a provider was ever disabled
                    \* until, in seconds after workflow.Now (0: none, or passed)
    calls,          \* history: failover calls made on this state
    \* PaperProcessWorkflow
    ppc,            \* the step whose activity is awaited, or "idle" / "done"
    pStatus,        \* the PaperStatus struct served by the status query
    pResult,        \* the workflow's result string
    pErr,           \* the workflow's error (TRUE = a workflow-level error)
    row,            \* the paper's row in the papers table
    pending,        \* UpdatePaperStatusActivity executions scheduled and
                    \* not awaited, still in flight (by their Status)
    invoked,        \* history: the steps invoked, in order
    results,        \* history: results[i] is how the activity of invoked[i]
                    \* ended ("ok", "err", "no_text", "invalid_encoding")
    \* SurveyBuildWorkflow
    sInput,         \* SurveyBuildInput: Prompt is not blank, len(Topics)
    spc,            \* the activity or failover call awaited, or "idle" / "done"
    sWindow,        \* len(contextWindow), -1 before the search has returned
    sGraphI,        \* the UpsertTopicGraphActivity loop's position
    sProgress,      \* SurveyProgress: TotalTopics, DoneTopics, TopicStatus
    sNote,          \* generationFailed as passed to buildLatexDocument
    sReport,        \* "none", or "written" once the report file exists
    sResult,        \* the workflow's result: "" or "path"
    sErr,           \* the workflow's error (TRUE = a workflow-level error)
    runStatus,      \* the survey_runs row: status and out_path
    sSent,          \* history: len(Context) of each callLLMWithFailover call
    sTypes,         \* history: what each callLLMWithFailover call returned
    \* atomic artifact writes (util.WriteJSONAtomic and its siblings)
    files,          \* the directory: name -> content (a sequence of blocks)
    wpc,            \* wpc[w]: where writer w stands
    wPos,           \* wPos[w]: the blocks writer w has written so far
    \* two executions of callEmbedWithFailover on one recorded history
    rInput,         \* the arguments of the call, the same for both
    rHist,          \* the recorded activity results and their durations
    rpc,            \* rpc[r]: "loop", "await", "done" (or "idle")
    rPos,           \* rPos[r]: the recorded results execution r has consumed
    rAttempt,       \* rAttempt[r]: the loop's attempt
    rRetry,         \* rRetry[r]: retryCounts, by provider index
    rUntil,         \* rUntil[r]: disabledUntil, in seconds after workflow.Now
    rCmds,          \* rCmds[r]: the activities and sleeps issued so far
    \* the chunk store: tables papers and chunks, searches and a backfill
    chunks,         \* the rows of table chunks
    papersTbl,      \* papersTbl[p]: corpus_id of the papers row (0: no row)
    lastOf,         \* lastOf[p]: the input of paper p's last completed run
    lastRun,        \* what the latest Paper Process run was and did
    found,          \* the latest chunk search: its request and its results
    bpc,            \* BackfillWorkflow: "idle", "loop", "done"
    bInput,         \* its input
    bList,          \* all.Papers
    bI,             \* the papers of all.Papers handled so far
    bPre,           \* the corpus was wholly embedded under v1 at its start
    processed,      \* its counter of children that returned no error
    runs,           \* the Paper Process runs so far
    \* a REEMBED_ALL_PAPERS backfill and the embed calls of its children
    rePc,           \* "idle", "loop", "child", "done"
    reInput,        \* the BackfillInput handleBackfill builds
    reLeft,         \* the papers of all.Papers not yet handled
    reUsed,         \* the provider indexes of the EmbedChunksActivity invocations
    \* KGExtractPaperWorkflow
    kpc,            \* "idle", "start", "list", "loop", "llm", "upsert", "mark", "done"
    kEntry,         \* the arguments of its callLLMWithFailover calls
    kListed,        \* ListPaperChunksActivity returned no error
    kChunks,        \* len(chunkOut.Chunks)
    kI,             \* the chunks handled so far
    llmFailures,    \* llmFailures
    kTriples,       \* len(triples)
    kUpsert,        \* UpsertKGTriplesActivity: "none", "ok", "error"
    kPending,       \* the run record of the closing MarkKGPaperRunActivity
    kMarks,         \* the run records passed to MarkKGPaperRunActivity so far
    kRow,           \* the row of kg_paper_runs
    kResult,        \* what the workflow returned
    \* the graph tables of one corpus
    nodes,          \* nodes[id]: payload.aliases of the node ({}: no row)
    edges,          \* edges[key]: support_count, provenance, weight of the edge
    gUpserts,       \* the UpsertKGTriples calls so far
    \* ClassifyError on the error of a provider call
    cePc,           \* "idle", "start", "returned", "done"
    ceNil,          \* the provider returned no error
    ceProv,         \* the text of the provider's error
    ceText,         \* the text of the error that is classified
    ceVia,          \* "none", "embed", "llm": the activity that made the call
    ceKind,         \* the ErrorType found ("none": ClassifyError not called)
    \* BackfillWorkflow, every mode
    mpc,            \* "idle", "start", "list", "children", "survey", "done"
    mMode,          \* input.Mode
    mActs,          \* history: the activities invoked
    mKids,          \* history: the child workflows started
    mLeft,          \* the listed papers not yet handled
    mManifest,      \* the run manifest was written
    mCount,         \* retried / processed: the counter the manifest reports
    mGood,          \* history: the children that returned "processed"
    mResult,        \* "none", "path", "error"
    \* the child workflow ids of one Corpus Ingest run
    cwPaths,        \* listOut.Paths
    cwIds,          \* the ids of the children started so far
    \* KGBackfillWorkflow
    gpc,            \* "idle", "list", "batch", "await", "done"
    gMax,           \* input.MaxConcurrent
    gPapers,        \* len(papers.Papers)
    gI,             \* the loop's i
    gFut,           \* the futures of the batch awaited so far
    gChild,         \* gChild[c]: "none", "running", or what child c ended with
    gProgress,      \* KGBackfillProgress
    gResult         \* "none", "completed", "error"

ingestVars == <<ipc, inMax, nPaths, loopI, futIdx, child, progress, iResult,
                iErr, summary, batchOf, awaited>>

failVars == <<fop, fpc, providerCount, preferredIdx, strict, cooldown, attempt,
              retryCounts, disabledUntil, curIdx, lastErr, fResult, script,
              invocations, auditLog, sleeps, disableLog, maxUntil,
              calls>>

paperVars == <<ppc, pStatus, pResult, pErr, row, pending, invoked, results>>

surveyVars == <<sInput, spc, sWindow, sGraphI, sProgress, sNote, sReport, sResult, sErr,
                runStatus, sSent, sTypes>>

fileVars == <<files, wpc, wPos>>

replayVars == <<rInput, rHist, rpc, rPos, rAttempt, rRetry, rUntil, rCmds>>

storeVars == <<chunks, papersTbl, lastOf, lastRun, found,
               bpc, bInput, bList, bI, bPre, processed, runs>>

reembedVars == <<rePc, reInput, reLeft, reUsed>>

kgVars == <<kpc, kEntry, kListed, kChunks, kI, llmFailures, kTriples, kUpsert,
            kPending, kMarks, kRow, kResult>>

graphVars == <<nodes, edges, gUpserts>>

classifyVars == <<cePc, ceNil, ceProv, ceText, ceVia, ceKind>>

modeVars == <<mpc, mMode, mActs, mKids, mLeft, mManifest, mCount, mGood, mResult>>

childIDVars == <<cwPaths, cwIds>>

kgBackfillVars == <<gpc, gMax, gPapers, gI, gFut, gChild, gProgress, gResult>>

moreVars == <<reembedVars, kgVars, graphVars, classifyVars, modeVars, childIDVars,
              kgBackfillVars>>

restReembed == <<kgVars, graphVars, classifyVars, modeVars, childIDVars,
    kgBackfillVars>>

restKG == <<reembedVars, graphVars, classifyVars, modeVars, childIDVars,
    kgBackfillVars>>

restGraph == <<reembedVars, kgVars, classifyVars, modeVars, childIDVars,
    kgBackfillVars>>

restClassify == <<reembedVars, kgVars, graphVars, modeVars, childIDVars,
    kgBackfillVars>>

restMode == <<reembedVars, kgVars, graphVars, classifyVars, childIDVars,
    kgBackfillVars>>

restChildIDs == <<reembedVars, kgVars, graphVars, classifyVars, modeVars,
    kgBackfillVars>>

restKGBackfill == <<reembedVars, kgVars, graphVars, classifyVars, modeVars, childIDVars>>

vars == <<ingestVars, failVars, paperVars, surveyVars, fileVars, replayVars,
          storeVars, moreVars>>

Paths == 1..MaxPaths

Min(a, b) == IF a < b THEN a ELSE b


\* ------------------------------------------------------- provider failover

Prov == 0..(MaxProviders - 1)

ErrorKinds == {"quota", "rate", "context", "transient", "permanent"}

\* an activity returns at once or after a minute (StartToCloseTimeout allows
\* up to five)
ActivityDurations == {0, 60}

CooldownInputs == {0, 10}

\* workflows.go:909-914
durationOrDefault(seconds, fallback) == IF seconds <= 0 THEN fallback ELSE seconds

\* workflows.go:146-149, 285-292, 916-921
defaultCount(n) == IF n <= 0 THEN 1 ELSE n

\* workflows.go:27-29
newProviderState == [p \in Prov |-> 0]

NoRetries == [p \in Prov |-> 0]

IdleFailover ==
    /\ fop = "idle"
    /\ fpc = "idle"
    /\ providerCount = 1
    /\ preferredIdx = -1
    /\ strict = FALSE
    /\ cooldown = DefaultCooldownSeconds
    /\ attempt = 0
    /\ retryCounts = NoRetries
    /\ disabledUntil = newProviderState
    /\ curIdx = 0
    /\ lastErr = "nil"
    /\ fResult = "none"
    /\ script = [p \in Prov |-> "any"]
    /\ invocations = 0
    /\ auditLog = <<>>
    /\ sleeps = <<>>
    /\ disableLog = <<>>
    /\ maxUntil = newProviderState
    /\ calls = 0

\* How the providers answer: any classified outcome each time ("any"), always
\* a success ("ok"), or Rate once and Quota from then on ("rate_then_quota").
Scripts ==
    {[p \in Prov |-> "any"]}
    \cup {[p \in Prov |-> IF p = g THEN "ok" ELSE "any"] : g \in Prov}
    \cup {[p \in Prov |-> IF p = 0 THEN "rate_then_quota" ELSE "ok"]}

\* The state at the entry of a failover call on a fresh provider state, with
\* the arguments its call site passes: workflows.go:145-150 and 198-212
\* (chunk-embed), 285-302 (query-embed), 289-295 and 369 with 619-621 (LLM).
EntryState(op, n, refs, p, st, c, sc) ==
    [fop |-> op,
     providerCount |-> IF op = "llm" /\ refs > 0 THEN refs ELSE defaultCount(n),
     preferredIdx |-> IF op = "embed" THEN p ELSE -1,
     strict |-> IF op = "embed" /\ p >= 0 THEN st ELSE FALSE,
     cooldown |-> durationOrDefault(c, DefaultCooldownSeconds),
     script |-> sc]

\* The inputs a failover call of operation op can be entered with
EntryStates(op) ==
    {EntryState(op, n, refs, p, st, c, sc) :
        n \in 0..MaxProviders, refs \in 0..MaxProviders,
        p \in -1..(MaxProviders - 1), st \in BOOLEAN, c \in CooldownInputs,
        sc \in Scripts}

InitFailover ==
    /\ \E e \in EntryStates("embed") \cup EntryStates("query") \cup EntryStates("llm") :
          /\ fop = e.fop
          /\ providerCount = e.providerCount
          /\ preferredIdx = e.preferredIdx
          /\ strict = e.strict
          /\ cooldown = e.cooldown
          /\ script = e.script
    /\ fpc = "loop"
    /\ attempt = 0
    /\ retryCounts = NoRetries
    /\ disabledUntil = newProviderState
    /\ curIdx = 0
    /\ lastErr = "nil"
    /\ fResult = "none"
    /\ invocations = 0
    /\ auditLog = <<>>
    /\ sleeps = <<>>
    /\ disableLog = <<>>
    /\ maxUntil = newProviderState
    /\ calls = 1

\* workflows.go:506-512 (embed), 578 (query), 623 (LLM)
maxAttempts ==
    IF fop = "embed"
      THEN IF strict /\ preferredIdx >= 0 THEN 4
           ELSE IF providerCount * 4 <= 0 THEN 4 ELSE providerCount * 4
      ELSE providerCount * 4

\* a variant in which strict mode rotates like a soft preference
CandidateIdxSoft ==
    IF fop = "embed" /\ preferredIdx >= 0
      THEN (preferredIdx + attempt) % providerCount
      ELSE attempt % providerCount

\* workflows.go:514-521 (embed), 579 (query), 624 (LLM)
CandidateIdx ==
    IF fop = "embed"
      THEN IF strict /\ preferredIdx >= 0 THEN preferredIdx
           ELSE IF preferredIdx >= 0 THEN (preferredIdx + attempt) % providerCount
           ELSE attempt % providerCount
      ELSE attempt % providerCount

\* a variant in which the cooldown is never consulted
isProviderDisabledNever(idx) == FALSE

\* workflows.go:680-686: workflow.Now(ctx).Before(until)
isProviderDisabled(idx) == 0 < disabledUntil[idx]

Max(a, b) == IF a > b THEN a ELSE b

\* The logs are history variables; they are kept in the runs whose providers
\* all follow a fixed script, where they stay short.
Recording == \A p \in Prov : script[p] # "any"

AppendLog(log, x) == IF Recording THEN Append(log, x) ELSE log

\* the classified error a call returns when the loop is used up
\* (workflows.go:567-570, 609-612, 674-677)
ExhaustedError == IF lastErr = "nil" THEN "exhausted" ELSE lastErr

\* workflows.go:513, 522-527 (578-585, 623-635): the loop test, the skip of a
\* disabled provider, and the invocation of the provider activity.
LoopHead ==
    /\ fpc = "loop"
    /\ IF attempt >= maxAttempts
         THEN /\ fResult' = ExhaustedError
              /\ fpc' = "done"
              /\ UNCHANGED <<attempt, curIdx, invocations>>
         ELSE IF isProviderDisabled(CandidateIdx)
           THEN /\ attempt' = attempt + 1
                /\ UNCHANGED <<fpc, fResult, curIdx, invocations>>
           ELSE /\ curIdx' = CandidateIdx
                /\ invocations' = invocations + 1
                /\ fpc' = "await"
                /\ UNCHANGED <<attempt, fResult>>
    /\ UNCHANGED <<fop, providerCount, preferredIdx, strict, cooldown, retryCounts,
                   disabledUntil, lastErr, script, auditLog, sleeps,
                   disableLog, maxUntil, calls,
                   ingestVars, paperVars, surveyVars, fileVars, replayVars, storeVars, moreVars>>

\* what the provider behind index idx answers to the invocation in flight
Answers(idx) ==
    IF script[idx] = "ok" THEN {"ok"}
    ELSE IF script[idx] = "rate_then_quota"
           THEN IF retryCounts[idx] = 0 THEN {"rate"} ELSE {"quota"}
    ELSE ErrorKinds \cup {"ok"}

AuditRow(out) ==
    [status |-> IF out = "ok" THEN "ok" ELSE "failed",
     errType |-> IF out = "ok" THEN "" ELSE out,
     idx |-> curIdx]

\* the workflow clock advances by d seconds: every recorded time comes d
\* seconds nearer
Later(until, d) == [p \in Prov |-> Max(0, until[p] - d)]

\* a variant that never disables a provider
AfterFailureNoDisable(d, sl, dis, keep) ==
    /\ disabledUntil' = Later(disabledUntil, d + sl)
    /\ maxUntil' = Later(maxUntil, d + sl)
    /\ disableLog' = disableLog
    /\ sleeps' = IF sl > 0 THEN AppendLog(sleeps, sl) ELSE sleeps
    /\ attempt' = IF keep THEN attempt ELSE attempt + 1

\* a variant that gives the attempt back after every failure that does not
\* disable the provider
AfterFailureKeep(d, sl, dis, keep) ==
    /\ disabledUntil' = IF dis > 0
                           THEN [Later(disabledUntil, d) EXCEPT ![curIdx] = dis]
                           ELSE Later(disabledUntil, d + sl)
    /\ maxUntil' = IF dis > 0
                      THEN [Later(maxUntil, d) EXCEPT ![curIdx] = Max(@, dis)]
                      ELSE Later(maxUntil, d + sl)
    /\ disableLog' = IF dis > 0
                        THEN AppendLog(disableLog, [idx |-> curIdx, for |-> dis])
                        ELSE disableLog
    /\ sleeps' = IF sl > 0 THEN AppendLog(sleeps, sl) ELSE sleeps
    /\ attempt' = IF dis = 0 THEN attempt ELSE attempt + 1

\* The code that follows a failed activity which took d seconds
\* (workflows.go:537-562, 593-607, 649-672): workflow.Sleep for sl seconds
\* (0: no sleep), disableProviderUntil(ctx, state, curIdx, dis) (0: no call;
\* workflows.go:688-690), and the loop's attempt, kept after an attempt--.
AfterFailure(d, sl, dis, keep) ==
    /\ disabledUntil' = IF dis > 0
                           THEN [Later(disabledUntil, d) EXCEPT ![curIdx] = dis]
                           ELSE Later(disabledUntil, d + sl)
    /\ maxUntil' = IF dis > 0
                      THEN [Later(maxUntil, d) EXCEPT ![curIdx] = Max(@, dis)]
                      ELSE Later(maxUntil, d + sl)
    /\ disableLog' = IF dis > 0
                        THEN AppendLog(disableLog, [idx |-> curIdx, for |-> dis])
                        ELSE disableLog
    /\ sleeps' = IF sl > 0 THEN AppendLog(sleeps, sl) ELSE sleeps
    /\ attempt' = IF keep THEN attempt ELSE attempt + 1

\* workflows.go:528-531 (586-588, 636-639): the activity succeeded
Succeeded(d) ==
    /\ fResult' = "ok"
    /\ fpc' = "done"
    /\ disabledUntil' = Later(disabledUntil, d)
    /\ maxUntil' = Later(maxUntil, d)
    /\ UNCHANGED <<attempt, retryCounts, lastErr, sleeps, disableLog>>

\* workflows.go:527-565: EmbedChunksActivity returns
EmbedComplete ==
    /\ fop = "embed"
    /\ fpc = "await"
    /\ \E out \in Answers(curIdx), d \in ActivityDurations :
        /\ auditLog' = AppendLog(auditLog, AuditRow(out))
        /\ IF out = "ok"
             THEN Succeeded(d)
             ELSE LET rc == retryCounts[curIdx] + 1 IN
               /\ lastErr' = out
               /\ retryCounts' = [retryCounts EXCEPT ![curIdx] = rc]
               /\ fpc' = "loop"
               /\ UNCHANGED fResult
               /\ CASE out = "quota" -> AfterFailure(d, 0, cooldown, FALSE)
                    [] out = "rate" ->
                         IF rc <= 2
                           THEN AfterFailure(d, rc * 2, 0, ~strict)
                           ELSE AfterFailure(d, 0, RateDisableSeconds, FALSE)
                    [] out = "transient" ->
                         IF rc <= 2
                           THEN AfterFailure(d, rc, 0, ~strict)
                           ELSE AfterFailure(d, 0, 0, FALSE)
                    [] OTHER -> AfterFailure(d, 0, PermanentDisableSeconds, FALSE)
    /\ UNCHANGED <<fop, providerCount, preferredIdx, strict, cooldown, curIdx,
                   script, invocations, calls,
                   ingestVars, paperVars, surveyVars, fileVars, replayVars, storeVars, moreVars>>

\* workflows.go:585-607: EmbedQueryActivity returns
QueryComplete ==
    /\ fop = "query"
    /\ fpc = "await"
    /\ \E out \in Answers(curIdx), d \in ActivityDurations :
        /\ IF out = "ok"
             THEN Succeeded(d)
             ELSE LET rc == retryCounts[curIdx] + 1 IN
               /\ lastErr' = out
               /\ retryCounts' = [retryCounts EXCEPT ![curIdx] = rc]
               /\ fpc' = "loop"
               /\ UNCHANGED fResult
               /\ CASE out = "quota" -> AfterFailure(d, 0, cooldown, FALSE)
                    [] out \in {"rate", "transient"} ->
                         IF rc <= 2
                           THEN AfterFailure(d, rc, 0, TRUE)
                           ELSE AfterFailure(d, 0, RateDisableSeconds, FALSE)
                    [] OTHER -> AfterFailure(d, 0, PermanentDisableSeconds, FALSE)
    /\ UNCHANGED <<fop, providerCount, preferredIdx, strict, cooldown, curIdx,
                   script, invocations, auditLog, calls,
                   ingestVars, paperVars, surveyVars, fileVars, replayVars, storeVars, moreVars>>

\* workflows.go:635-672: LLMGenerateActivity returns
LLMComplete ==
    /\ fop = "llm"
    /\ fpc = "await"
    /\ \E out \in Answers(curIdx), d \in ActivityDurations :
        /\ auditLog' = AppendLog(auditLog, AuditRow(out))
        /\ IF out = "ok"
             THEN Succeeded(d)
             ELSE LET rc == retryCounts[curIdx] + 1 IN
               /\ lastErr' = out
               /\ retryCounts' = [retryCounts EXCEPT ![curIdx] = rc]
               /\ fpc' = IF out = "context" THEN "done" ELSE "loop"
               /\ fResult' = IF out = "context" THEN "context" ELSE fResult
               /\ CASE out = "quota" -> AfterFailure(d, 0, cooldown, FALSE)
                    [] out = "rate" ->
                         IF rc <= 2
                           THEN AfterFailure(d, rc * 2, 0, TRUE)
                           ELSE AfterFailure(d, 0, RateDisableSeconds, FALSE)
                    [] out = "transient" ->
                         IF rc <= 2
                           THEN AfterFailure(d, rc, 0, TRUE)
                           ELSE AfterFailure(d, 0, 0, FALSE)
                    [] out = "context" -> AfterFailure(d, 0, 0, TRUE)
                    [] OTHER -> AfterFailure(d, 0, PermanentDisableSeconds, FALSE)
    /\ UNCHANGED <<fop, providerCount, preferredIdx, strict, cooldown, curIdx,
                   script, invocations, calls,
                   ingestVars, paperVars, surveyVars, fileVars, replayVars, storeVars, moreVars>>

\* The next callLLMWithFailover call on the same providerState, with a fresh
\* retryCounts map (nil is passed): workflows.go:376, kg_workflows.go:120-127.
ReenterLLM ==
    /\ calls' = calls + 1
    /\ fpc' = "loop"
    /\ attempt' = 0
    /\ retryCounts' = NoRetries
    /\ lastErr' = "nil"
    /\ fResult' = "none"
    /\ invocations' = 0
    /\ auditLog' = <<>>
    /\ sleeps' = <<>>
    /\ disableLog' = <<>>
    /\ UNCHANGED <<fop, providerCount, preferredIdx, strict, cooldown,
                   disabledUntil, curIdx, script, maxUntil>>

\* A later callLLMWithFailover call on the same providerState:
\* workflows.go:369-377, kg_workflows.go:120-127
NextLLMCall ==
    /\ fop = "llm"
    /\ fpc = "done"
    /\ calls < MaxCalls
    /\ ReenterLLM
    /\ UNCHANGED <<ingestVars, paperVars, surveyVars, fileVars, replayVars, storeVars, moreVars>>

NextFailover ==
    \/ LoopHead
    \/ EmbedComplete
    \/ QueryComplete
    \/ LLMComplete
    \/ NextLLMCall

\* ------------------------------------------------------ CorpusIngestWorkflow

\* workflows.go:59-62
MaxChildrenDefault4(m) == IF m <= 0 THEN 4 ELSE m

MaxChildrenOf(m) == IF m <= 0 THEN 3 ELSE m

maxChildren == MaxChildrenOf(inMax)

\* the end of the batch that starts at loopI (workflows.go:65-68)
BatchEnd == Min(loopI + maxChildren, nPaths)

InitIngest ==
    /\ ipc = "list"
    /\ inMax \in -1..MaxInputChildren
    /\ nPaths = 0
    /\ loopI = 0
    /\ futIdx = 0
    /\ child = [c \in Paths |-> "none"]
    /\ progress = [Total |-> 0, Done |-> 0, Failed |-> 0,
                   PerPaper |-> [c \in Paths |-> "none"]]
    /\ iResult = ""
    /\ iErr = FALSE
    /\ summary = "none"
    /\ batchOf = [c \in Paths |-> -1]
    /\ awaited = {}

\* workflows.go:54-58: the list activity fails (the workflow returns the
\* error) or returns the paths of the corpus directory.
ListPDFsActivity ==
    /\ ipc = "list"
    /\ \/ /\ ipc' = "done"
          /\ iErr' = TRUE
          /\ UNCHANGED <<nPaths, progress>>
       \/ \E n \in 0..MaxPaths :
            /\ nPaths' = n
            /\ progress' = [progress EXCEPT !.Total = n]
            /\ ipc' = "batch"
            /\ UNCHANGED iErr
    /\ UNCHANGED <<inMax, loopI, futIdx, child, iResult, summary, batchOf, awaited,
                   failVars, paperVars, surveyVars, fileVars, replayVars, storeVars, moreVars>>

\* workflows.go:64-87: the loop test and the fan-out of one batch.  The
\* ExecuteChildWorkflow calls do not suspend, so the batch starts as a whole.
StartBatch ==
    /\ ipc = "batch"
    /\ loopI < nPaths
    /\ LET new == (loopI + 1)..BatchEnd IN
        /\ child' = [c \in Paths |-> IF c \in new THEN "running" ELSE child[c]]
        /\ progress' = [progress EXCEPT !.PerPaper =
                [c \in Paths |-> IF c \in new THEN "processing" ELSE @[c]]]
        /\ batchOf' = [c \in Paths |-> IF c \in new THEN loopI ELSE batchOf[c]]
    /\ futIdx' = 0
    /\ ipc' = "await"
    /\ UNCHANGED <<inMax, nPaths, loopI, iResult, iErr, summary, awaited,
                   failVars, paperVars, surveyVars, fileVars, replayVars, storeVars, moreVars>>

\* workflows.go:64: the loop ends when i >= len(paths)
LoopExit ==
    /\ ipc = "batch"
    /\ loopI >= nPaths
    /\ ipc' = "summary"
    /\ UNCHANGED <<inMax, nPaths, loopI, futIdx, child, progress, iResult, iErr,
                   summary, batchOf, awaited,
                   failVars, paperVars, surveyVars, fileVars, replayVars, storeVars, moreVars>>

\* A Paper Process child ends: with a result, or with a workflow-level error.
ChildFinish(c) ==
    /\ child[c] = "running"
    /\ \E out \in {"processed", "failed", "error"} :
          child' = [child EXCEPT ![c] = out]
    /\ UNCHANGED <<ipc, inMax, nPaths, loopI, futIdx, progress, iResult, iErr,
                   summary, batchOf, awaited,
                   failVars, paperVars, surveyVars, fileVars, replayVars, storeVars, moreVars>>

\* workflows.go:93-101: the tallies of one awaited child
TallyDoneAlways(done, out) == done + 1

TallyDone(done, out) == IF out = "error" THEN done ELSE done + 1

TallyFailed(failed, out) ==
    IF out = "error" \/ out = "failed" THEN failed + 1 ELSE failed

TallyPerPaper(out) == IF out = "error" THEN "failed" ELSE out

\* a variant in which a child's workflow-level error ends the parent
AwaitChildPropagating ==
    /\ ipc = "await"
    /\ LET c == loopI + futIdx + 1 IN
        /\ child[c] \notin {"none", "running"}
        /\ awaited' = awaited \cup {c}
        /\ IF child[c] = "error"
              THEN /\ iErr' = TRUE
                   /\ ipc' = "done"
                   /\ UNCHANGED <<loopI, futIdx, progress>>
              ELSE /\ progress' = [progress EXCEPT
                          !.Done = TallyDone(@, child[c]),
                          !.Failed = TallyFailed(@, child[c]),
                          !.PerPaper[c] = TallyPerPaper(child[c])]
                   /\ UNCHANGED iErr
                   /\ IF c = BatchEnd
                         THEN /\ loopI' = loopI + maxChildren
                              /\ futIdx' = 0
                              /\ ipc' = "batch"
                         ELSE /\ futIdx' = futIdx + 1
                              /\ UNCHANGED <<loopI, ipc>>
    /\ UNCHANGED <<inMax, nPaths, child, iResult, summary, batchOf,
                   failVars, paperVars, surveyVars, fileVars, replayVars, storeVars, moreVars>>

\* workflows.go:89-103 (and the i += maxChildren of line 64 after the last
\* future): f.Get returns once the child has ended.
AwaitChild ==
    /\ ipc = "await"
    /\ LET c == loopI + futIdx + 1 IN
        /\ child[c] \notin {"none", "running"}
        /\ progress' = [progress EXCEPT
                !.Done = TallyDone(@, child[c]),
                !.Failed = TallyFailed(@, child[c]),
                !.PerPaper[c] = TallyPerPaper(child[c])]
        /\ awaited' = awaited \cup {c}
        /\ IF c = BatchEnd
              THEN /\ loopI' = loopI + maxChildren
                   /\ futIdx' = 0
                   /\ ipc' = "batch"
              ELSE /\ futIdx' = futIdx + 1
                   /\ UNCHANGED <<loopI, ipc>>
    /\ UNCHANGED <<inMax, nPaths, child, iResult, iErr, summary, batchOf,
                   failVars, paperVars, surveyVars, fileVars, replayVars, storeVars, moreVars>>

\* workflows.go:105-117: the summary activity is awaited, its error is
\* discarded, and the workflow returns "completed".
WriteCorpusSummaryActivity ==
    /\ ipc = "summary"
    /\ \E out \in {"written", "error"} : summary' = out
    /\ iResult' = "completed"
    /\ ipc' = "done"
    /\ UNCHANGED <<inMax, nPaths, loopI, futIdx, child, progress, iErr, batchOf,
                   awaited,
                   failVars, paperVars, surveyVars, fileVars, replayVars, storeVars, moreVars>>

NextIngest ==
    \/ ListPDFsActivity
    \/ StartBatch
    \/ LoopExit
    \/ \E c \in Paths : ChildFinish(c)
    \/ AwaitChild
    \/ WriteCorpusSummaryActivity

IdleIngest ==
    /\ ipc = "idle"
    /\ inMax = 0
    /\ nPaths = 0
    /\ loopI = 0
    /\ futIdx = 0
    /\ child = [c \in Paths |-> "none"]
    /\ progress = [Total |-> 0, Done |-> 0, Failed |-> 0,
                   PerPaper |-> [c \in Paths |-> "none"]]
    /\ iResult = ""
    /\ iErr = FALSE
    /\ summary = "none"
    /\ batchOf = [c \in Paths |-> -1]
    /\ awaited = {}

\* ----------------------------------------------------- PaperProcessWorkflow

\* workflows.go:170 and 224
NoTextReason == "no extractable text found (OCR not enabled)"

InvalidEncodingReason == "paper contains invalid text encoding after extraction"

NoRow == [status |-> "none", failReason |-> ""]

\* llm_audit_repo.go:56-76: status and fail_reason are overwritten by the
\* values of the upsert
UpsertPaper(st, reason) == [status |-> st, failReason |-> reason]

\* The state once the workflow has scheduled its first activity,
\* workflows.go:121-155
InitPaper ==
    /\ ppc = "compute_paper_id"
    /\ pStatus = [Status |-> "processing", FailReason |-> "",
                  CurrentStep |-> "compute_paper_id"]
    /\ pResult = ""
    /\ pErr = FALSE
    /\ row = NoRow
    /\ pending = {}
    /\ invoked = <<"compute_paper_id">>
    /\ results = <<>>

IdlePaper ==
    /\ ppc = "idle"
    /\ pStatus = [Status |-> "", FailReason |-> "", CurrentStep |-> ""]
    /\ pResult = ""
    /\ pErr = FALSE
    /\ row = NoRow
    /\ pending = {}
    /\ invoked = <<>>
    /\ results = <<>>

\* `return "", err`
ReturnError ==
    /\ ppc' = "done"
    /\ pResult' = ""
    /\ pErr' = TRUE

\* `return status.Status, nil`
ReturnStatus(st) ==
    /\ ppc' = "done"
    /\ pResult' = st
    /\ pErr' = FALSE

\* status.CurrentStep = step, and the step's activity is scheduled
Invoke(step) ==
    /\ ppc' = step
    /\ pStatus' = [pStatus EXCEPT !.CurrentStep = step]
    /\ invoked' = Append(invoked, step)
    /\ UNCHANGED <<pResult, pErr>>

\* a variant that goes on to the next step after an error
ErrorEndsIgnored(next) == Invoke(next) /\ UNCHANGED <<row, pending>>

\* an error that is none of the two content errors: workflows.go:155-157,
\* 173, 181-183, 189-191, 213-215, 233, 241-243, 249-251
ErrorEnds(next) ==
    /\ ReturnError
    /\ UNCHANGED <<pStatus, row, pending, invoked>>

\* workflows.go:152-164: the result of ComputePaperIDActivity; on success
\* the "processing" update is scheduled and not awaited, then extract text
ComputePaperIDActivity ==
    /\ ppc = "compute_paper_id"
    /\ \E out \in {"ok", "err"} :
         /\ results' = Append(results, out)
         /\ IF out = "ok"
           THEN /\ pending' = pending \cup {"processing"}
                /\ Invoke("extract_text")
                /\ UNCHANGED row
           ELSE ErrorEnds("extract_text")
    /\ UNCHANGED <<ingestVars, failVars, surveyVars, fileVars, replayVars, storeVars, moreVars>>

\* a variant that goes on to the metadata step on the no-text error
NoTextContinues ==
    /\ pStatus' = [pStatus EXCEPT !.Status = "failed",
                                  !.FailReason = NoTextReason,
                                  !.CurrentStep = "extract_metadata"]
    /\ pending' = pending \cup {"failed"}
    /\ ppc' = "extract_metadata"
    /\ invoked' = Append(invoked, "extract_metadata")
    /\ UNCHANGED <<pResult, pErr, row>>

\* workflows.go:167-172: the no-text error; the "failed" update is scheduled
\* and not awaited
NoText ==
    /\ pStatus' = [pStatus EXCEPT !.Status = "failed",
                                  !.FailReason = NoTextReason]
    /\ pending' = pending \cup {"failed"}
    /\ ReturnStatus("failed")
    /\ UNCHANGED <<row, invoked>>

\* workflows.go:163-180
ExtractTextActivity ==
    /\ ppc = "extract_text"
    /\ \E out \in {"ok", "no_text", "err"} :
         /\ results' = Append(results, out)
         /\ CASE out = "ok" -> Invoke("extract_metadata") /\ UNCHANGED <<row, pending>>
           [] out = "no_text" -> NoText
           [] OTHER -> ErrorEnds("extract_metadata")
    /\ UNCHANGED <<ingestVars, failVars, surveyVars, fileVars, replayVars, storeVars, moreVars>>

\* workflows.go:178-188
ExtractMetadataActivity ==
    /\ ppc = "extract_metadata"
    /\ \E out \in {"ok", "err"} :
         /\ results' = Append(results, out)
         /\ IF out = "ok"
           THEN Invoke("chunk_text") /\ UNCHANGED <<row, pending>>
           ELSE ErrorEnds("chunk_text")
    /\ UNCHANGED <<ingestVars, failVars, surveyVars, fileVars, replayVars, storeVars, moreVars>>

\* workflows.go:186-212: on success callEmbedWithFailover is entered with a
\* fresh provider state and the arguments of workflows.go:145-150, 198-212
ChunkTextActivity ==
    /\ ppc = "chunk_text"
    /\ \E out \in {"ok", "err"} :
         /\ results' = Append(results, out)
         /\ IF out = "ok"
           THEN /\ Invoke("embed_chunks")
                /\ UNCHANGED <<row, pending>>
                /\ \E e \in EntryStates("embed") :
                      /\ fop' = e.fop
                      /\ providerCount' = e.providerCount
                      /\ preferredIdx' = e.preferredIdx
                      /\ strict' = e.strict
                      /\ cooldown' = e.cooldown
                      /\ script' = e.script
                /\ fpc' = "loop"
                /\ attempt' = 0
                /\ retryCounts' = NoRetries
                /\ disabledUntil' = newProviderState
                /\ curIdx' = 0
                /\ lastErr' = "nil"
                /\ fResult' = "none"
                /\ invocations' = 0
                /\ auditLog' = <<>>
                /\ sleeps' = <<>>
                /\ disableLog' = <<>>
                /\ maxUntil' = newProviderState
                /\ calls' = 1
           ELSE /\ ErrorEnds("embed_chunks")
                /\ UNCHANGED failVars
    /\ UNCHANGED <<ingestVars, surveyVars, fileVars, replayVars, storeVars, moreVars>>

\* workflows.go:213-222: callEmbedWithFailover has returned
EmbedChunksReturn ==
    /\ ppc = "embed_chunks"
    /\ fop = "embed"
    /\ fpc = "done"
    /\ results' = Append(results, IF fResult = "ok" THEN "ok" ELSE "err")
    /\ IF fResult = "ok"
         THEN Invoke("upsert_chunks") /\ UNCHANGED <<row, pending>>
         ELSE ErrorEnds("upsert_chunks")
    /\ UNCHANGED <<ingestVars, failVars, surveyVars, fileVars, replayVars, storeVars, moreVars>>

\* workflows.go:221-231: the invalid-encoding error; the "failed" update is
\* awaited and its own error is dropped
InvalidEncoding ==
    /\ pStatus' = [pStatus EXCEPT !.Status = "failed",
                                  !.FailReason = InvalidEncodingReason]
    /\ \E upd \in {"ok", "err"} :
         row' = IF upd = "ok" THEN UpsertPaper("failed", InvalidEncodingReason)
                              ELSE row
    /\ ReturnStatus("failed")
    /\ UNCHANGED <<pending, invoked>>

\* workflows.go:219-241
UpsertChunksActivity ==
    /\ ppc = "upsert_chunks"
    /\ \E out \in {"ok", "invalid_encoding", "err"} :
         /\ results' = Append(results, out)
         /\ CASE out = "ok" -> Invoke("write_artifacts") /\ UNCHANGED <<row, pending>>
           [] out = "invalid_encoding" -> InvalidEncoding
           [] OTHER -> ErrorEnds("write_artifacts")
    /\ UNCHANGED <<ingestVars, failVars, surveyVars, fileVars, replayVars, storeVars, moreVars>>

\* workflows.go:239-248
WritePaperArtifactsActivity ==
    /\ ppc = "write_artifacts"
    /\ \E out \in {"ok", "err"} :
         /\ results' = Append(results, out)
         /\ IF out = "ok"
           THEN Invoke("mark_processed") /\ UNCHANGED <<row, pending>>
           ELSE ErrorEnds("mark_processed")
    /\ UNCHANGED <<ingestVars, failVars, surveyVars, fileVars, replayVars, storeVars, moreVars>>

\* workflows.go:246-254: the awaited UpdatePaperStatusActivity "processed"
MarkProcessed ==
    /\ ppc = "mark_processed"
    /\ \E out \in {"ok", "err"} :
         /\ results' = Append(results, out)
         /\ IF out = "ok"
           THEN /\ row' = UpsertPaper("processed", "")
                /\ pStatus' = [pStatus EXCEPT !.CurrentStep = "done",
                                              !.Status = "processed"]
                /\ ReturnStatus("processed")
                /\ UNCHANGED <<pending, invoked>>
           ELSE ErrorEnds("done")
    /\ UNCHANGED <<ingestVars, failVars, surveyVars, fileVars, replayVars, storeVars, moreVars>>

\* activities.go:240-250: an UpdatePaperStatusActivity that was not awaited
\* runs, at whatever moment a worker takes it
DeliverUpdate(u) ==
    /\ u \in pending
    /\ row' = UpsertPaper(u, IF u = "failed" THEN NoTextReason ELSE "")
    /\ pending' = pending \ {u}
    /\ UNCHANGED <<ppc, pStatus, pResult, pErr, invoked, results, ingestVars, failVars,
                   surveyVars, fileVars, replayVars, storeVars, moreVars>>

\* An UpdatePaperStatusActivity that was not awaited ends without writing:
\* its upsert fails, or the workflow has closed before the activity started
AbandonUpdate(u) ==
    /\ u \in pending
    /\ pending' = pending \ {u}
    /\ UNCHANGED <<row, ppc, pStatus, pResult, pErr, invoked, results,
                   ingestVars, failVars, surveyVars, fileVars, replayVars, storeVars, moreVars>>

NextPaper ==
    \/ ComputePaperIDActivity
    \/ ExtractTextActivity
    \/ ExtractMetadataActivity
    \/ ChunkTextActivity
    \/ LoopHead
    \/ EmbedComplete
    \/ EmbedChunksReturn
    \/ UpsertChunksActivity
    \/ WritePaperArtifactsActivity
    \/ MarkProcessed
    \/ \E u \in {"processing", "failed"} : DeliverUpdate(u)
    \/ \E u \in {"processing", "failed"} : AbandonUpdate(u)

\* ------------------------------------------------------ SurveyBuildWorkflow

\* survey_runs as CreateRun leaves it (SurveyRepo.CreateRun)
PendingRun == [status |-> "pending", outPath |-> ""]

\* SurveyRepo.UpdateRunStatus: status and out_path are overwritten
UpdateRunStatus(st, path) == [status |-> st, outPath |-> path]

NoSurveyInput == [prompt |-> FALSE, topics |-> 0]

IdleSurvey ==
    /\ sInput = NoSurveyInput
    /\ spc = "idle"
    /\ sWindow = -1
    /\ sGraphI = 0
    /\ sProgress = [TotalTopics |-> 0, DoneTopics |-> 0, TopicStatus |-> ""]
    /\ sNote = "none"
    /\ sReport = "none"
    /\ sResult = ""
    /\ sErr = FALSE
    /\ runStatus = PendingRun
    /\ sSent = <<>>
    /\ sTypes = <<>>

\* SurveyBuildInput: whether Prompt has text, and the number of Topics (each
\* with text)
SurveyInputs == [prompt : BOOLEAN, topics : 0..MaxTopics]

\* workflows.go:258-283: with an empty prompt and no topic the workflow ends
\* with an error at once; otherwise it awaits the "running" update. The one
\* topic of the run is the prompt, or else Topics[0]; TotalTopics is 1.
SurveyStart(in) ==
    LET empty == ~in.prompt /\ in.topics = 0 IN
    /\ sInput = in
    /\ spc = (IF empty THEN "done" ELSE "update_running")
    /\ sErr = empty
    /\ sProgress = [TotalTopics |-> IF empty THEN 0 ELSE 1, DoneTopics |-> 0,
                    TopicStatus |-> ""]
    /\ sWindow = -1
    /\ sGraphI = 0
    /\ sNote = "none"
    /\ sReport = "none"
    /\ sResult = ""
    /\ runStatus = PendingRun
    /\ sSent = <<>>
    /\ sTypes = <<>>

\* a run on no input at all, or on one topic
InitSurvey == \E in \in {NoSurveyInput, [prompt |-> FALSE, topics |-> 1]} : SurveyStart(in)

\* a run on any number of topics, without a prompt
InitTopics == \E in \in {i \in SurveyInputs : ~i.prompt} : SurveyStart(in)

\* The entry of a failover call on a fresh providerState
EnterCall(e) ==
    /\ fop' = e.fop
    /\ providerCount' = e.providerCount
    /\ preferredIdx' = e.preferredIdx
    /\ strict' = e.strict
    /\ cooldown' = e.cooldown
    /\ script' = e.script
    /\ fpc' = "loop"
    /\ attempt' = 0
    /\ retryCounts' = NoRetries
    /\ disabledUntil' = newProviderState
    /\ curIdx' = 0
    /\ lastErr' = "nil"
    /\ fResult' = "none"
    /\ invocations' = 0
    /\ auditLog' = <<>>
    /\ sleeps' = <<>>
    /\ disableLog' = <<>>
    /\ maxUntil' = newProviderState
    /\ calls' = 1

\* The providerState of a call that has returned is not read again
LeaveCall ==
    /\ fop' = "idle"
    /\ fpc' = "idle"
    /\ providerCount' = 1
    /\ preferredIdx' = -1
    /\ strict' = FALSE
    /\ cooldown' = DefaultCooldownSeconds
    /\ attempt' = 0
    /\ retryCounts' = NoRetries
    /\ disabledUntil' = newProviderState
    /\ curIdx' = 0
    /\ lastErr' = "nil"
    /\ fResult' = "none"
    /\ script' = [p \in Prov |-> "any"]
    /\ invocations' = 0
    /\ auditLog' = <<>>
    /\ sleeps' = <<>>
    /\ disableLog' = <<>>
    /\ maxUntil' = newProviderState
    /\ calls' = 0

\* The arguments Survey Build passes to a failover call (workflows.go:285-295);
\* each provider may answer anything
SurveyEntries(op) == {e \in EntryStates(op) : \A p \in Prov : e.script[p] = "any"}

\* `return "", err`
SurveyError ==
    /\ spc' = "done"
    /\ sErr' = TRUE
    /\ sResult' = ""

\* workflows.go:283-305: the awaited "running" update, its error dropped, then
\* the topic embedding is started
UpdateRunning ==
    /\ spc = "update_running"
    /\ \E out \in {"ok", "err"} :
         runStatus' = IF out = "ok" THEN UpdateRunStatus("running", "") ELSE runStatus
    /\ sProgress' = [sProgress EXCEPT !.TopicStatus = "retrieving"]
    /\ spc' = "embed_query"
    /\ \E e \in SurveyEntries("query") : EnterCall(e)
    /\ UNCHANGED <<sWindow, sGraphI, sNote, sReport, sResult, sErr, sSent, sTypes,
                   sInput, ingestVars, paperVars, fileVars, replayVars, storeVars, moreVars>>

\* workflows.go:302-311: callEmbedQueryWithFailover has returned
EmbedQueryReturn ==
    /\ spc = "embed_query"
    /\ fop = "query"
    /\ fpc = "done"
    /\ IF fResult = "ok"
         THEN /\ spc' = "search"
              /\ UNCHANGED <<sProgress, sErr, sResult>>
         ELSE /\ sProgress' = [sProgress EXCEPT !.TopicStatus = "failed"]
              /\ SurveyError
    /\ LeaveCall
    /\ UNCHANGED <<sWindow, sGraphI, sNote, sReport, runStatus, sSent, sTypes,
                   sInput, ingestVars, paperVars, fileVars, replayVars, storeVars, moreVars>>

\* workflows.go:371-374
Reduce(w) == IF w > ReducedWindow THEN ReducedWindow ELSE w

\* workflows.go:363-369: the first callLLMWithFailover call
EnterLLM(w) ==
    /\ sProgress' = [sProgress EXCEPT !.TopicStatus = "drafting"]
    /\ spc' = "llm1"
    /\ sSent' = <<w>>
    /\ \E e \in SurveyEntries("llm") : EnterCall(e)

\* workflows.go:311-332: the chunk search; w results make a window of w
\* entries (buildSurveyReferences)
SearchChunksActivity ==
    /\ spc = "search"
    /\ \E out \in {"ok", "err"}, w \in 0..MaxWindow :
         IF out = "ok"
           THEN /\ sWindow' = w
                /\ IF w > 0
                     THEN /\ spc' = "topic_graph"
                          /\ UNCHANGED <<sProgress, sSent, failVars>>
                     ELSE EnterLLM(w)
                /\ UNCHANGED <<sErr, sResult>>
           ELSE /\ sProgress' = [sProgress EXCEPT !.TopicStatus = "failed"]
                /\ SurveyError
                /\ UNCHANGED <<sWindow, sSent, failVars>>
    /\ UNCHANGED <<sGraphI, sNote, sReport, runStatus, sTypes, sInput, ingestVars, paperVars, fileVars, replayVars, storeVars, moreVars>>

\* workflows.go:320-341: one UpsertTopicGraphActivity per result, its error
\* dropped; after the last one the paper metadata is fetched
UpsertTopicGraphActivity ==
    /\ spc = "topic_graph"
    /\ sGraphI' = sGraphI + 1
    /\ IF sGraphI + 1 = sWindow
         THEN /\ spc' = "paper_meta"
              /\ sProgress' = [sProgress EXCEPT !.TopicStatus = "drafting"]
         ELSE UNCHANGED <<spc, sProgress>>
    /\ UNCHANGED <<sWindow, sNote, sReport, sResult, sErr, runStatus, sSent, sTypes,
                   sInput, ingestVars, failVars, paperVars, fileVars, replayVars, storeVars, moreVars>>

\* workflows.go:339-369: GetSurveyPaperMetaActivity only decorates the
\* references; then the section is generated
GetSurveyPaperMetaActivity ==
    /\ spc = "paper_meta"
    /\ EnterLLM(sWindow)
    /\ UNCHANGED <<sWindow, sGraphI, sNote, sReport, sResult, sErr, runStatus, sTypes,
                   sInput, ingestVars, paperVars, fileVars, replayVars, storeVars, moreVars>>

\* sectionErrType: workflows.go:638, 669, 674-677 (the "exhausted" error has
\* none of ClassifyError's triggers)
ErrTypeOf(res) ==
    IF res = "ok" THEN "" ELSE IF res = "exhausted" THEN "permanent" ELSE res

\* a variant that retries after every failed first call
RetryNeededAlways(res) == res # "ok"

\* workflows.go:370
RetryNeeded(res) == res # "ok" /\ ErrTypeOf(res) = "context"

\* a variant that ends the workflow when the generation has failed
ToReportOrError(res) ==
    IF res # "ok"
      THEN SurveyError /\ UNCHANGED sNote
      ELSE /\ spc' = "write_report"
           /\ sNote' = "no"
           /\ UNCHANGED <<sErr, sResult>>

\* workflows.go:379-385: the report is built, with the generation note when
\* sectionErr != nil, and its write is started
ToReport(res) ==
    /\ spc' = "write_report"
    /\ sNote' = IF res # "ok" THEN "yes" ELSE "no"
    /\ UNCHANGED <<sErr, sResult>>

\* workflows.go:369-385: the first callLLMWithFailover call has returned
LLMReturn1 ==
    /\ spc = "llm1"
    /\ fop = "llm"
    /\ fpc = "done"
    /\ sTypes' = Append(sTypes, fResult)
    /\ IF RetryNeeded(fResult)
         THEN /\ sSent' = Append(sSent, Reduce(sWindow))
              /\ ReenterLLM
              /\ spc' = "llm2"
              /\ UNCHANGED <<sNote, sErr, sResult>>
         ELSE /\ ToReport(fResult)
              /\ LeaveCall
              /\ UNCHANGED sSent
    /\ UNCHANGED <<sWindow, sGraphI, sProgress, sReport, runStatus,
                   sInput, ingestVars, paperVars, fileVars, replayVars, storeVars, moreVars>>

\* workflows.go:376-385: the second callLLMWithFailover call has returned
LLMReturn2 ==
    /\ spc = "llm2"
    /\ fop = "llm"
    /\ fpc = "done"
    /\ sTypes' = Append(sTypes, fResult)
    /\ ToReport(fResult)
    /\ LeaveCall
    /\ UNCHANGED <<sWindow, sGraphI, sProgress, sReport, runStatus, sSent,
                   sInput, ingestVars, paperVars, fileVars, replayVars, storeVars, moreVars>>

\* workflows.go:384-395
WriteSurveyReportActivity ==
    /\ spc = "write_report"
    /\ \E out \in {"ok", "err"} :
         IF out = "ok"
           THEN /\ sReport' = "written"
                /\ sProgress' = [sProgress EXCEPT !.TopicStatus = "done",
                                                  !.DoneTopics = 1]
                /\ spc' = "update_completed"
                /\ UNCHANGED <<sErr, sResult>>
           ELSE /\ SurveyError
                /\ UNCHANGED <<sReport, sProgress>>
    /\ UNCHANGED <<sWindow, sGraphI, sNote, runStatus, sSent, sTypes,
                   sInput, ingestVars, failVars, paperVars, fileVars, replayVars, storeVars, moreVars>>

\* workflows.go:395-396: the awaited "completed" update, its error dropped
UpdateCompleted ==
    /\ spc = "update_completed"
    /\ \E out \in {"ok", "err"} :
         runStatus' = IF out = "ok" THEN UpdateRunStatus("completed", "path")
                                    ELSE runStatus
    /\ spc' = "done"
    /\ sResult' = "path"
    /\ sErr' = FALSE
    /\ UNCHANGED <<sWindow, sGraphI, sProgress, sNote, sReport, sSent, sTypes,
                   sInput, ingestVars, failVars, paperVars, fileVars, replayVars, storeVars, moreVars>>

NextSurvey ==
    \/ UpdateRunning
    \/ LoopHead
    \/ QueryComplete
    \/ EmbedQueryReturn
    \/ SearchChunksActivity
    \/ UpsertTopicGraphActivity
    \/ GetSurveyPaperMetaActivity
    \/ LLMComplete
    \/ LLMReturn1
    \/ LLMReturn2
    \/ WriteSurveyReportActivity
    \/ UpdateCompleted

\* ---------------------------------------------------- atomic artifact writes

Writers == 1..MaxWriters

\* no file under the name
NoFile == <<-1>>

\* the artifact's path
FinalName == <<"final", 0>>

\* What was under the final name before: nothing, or an earlier complete file
OldContent == [i \in 1..ContentLen |-> 0]

\* The complete content writer w is asked to write
NewContent(w) == [i \in 1..ContentLen |-> w]

\* a variant in which every writer uses the same temporary name
TempNameShared(w) == <<"tmp", 0>>

\* artifacts.go:15, 38, 79: os.CreateTemp picks a name no other file has
TempName(w) == <<"tmp", w>>

FileNames == {FinalName} \cup {TempName(w) : w \in Writers}

IdleFiles ==
    /\ files = [n \in FileNames |-> NoFile]
    /\ wpc = [w \in Writers |-> "idle"]
    /\ wPos = [w \in Writers |-> 0]

InitFiles ==
    /\ \E old \in {NoFile, OldContent} :
          files = [n \in FileNames |-> IF n = FinalName THEN old ELSE NoFile]
    /\ wpc = [w \in Writers |-> "start"]
    /\ wPos = [w \in Writers |-> 0]

\* an error return: artifacts.go:13, 17, 23, 26, 29
WriterFails(w) ==
    /\ wpc' = [wpc EXCEPT ![w] = "failed"]
    /\ UNCHANGED <<files, wPos>>

\* artifacts.go:12-18: EnsureDir and os.CreateTemp
CreateTemp(w) ==
    /\ wpc[w] = "start"
    /\ \/ /\ files' = [files EXCEPT ![TempName(w)] = <<>>]
          /\ wpc' = [wpc EXCEPT ![w] = "writing"]
          /\ UNCHANGED wPos
       \/ WriterFails(w)
    /\ UNCHANGED <<ingestVars, failVars, paperVars, surveyVars, replayVars, storeVars, moreVars>>

\* artifacts.go:19-24, 42-57, 83-86: the content reaches the temporary file
\* block by block, and the write may fail at any block
WriteBlock(w) ==
    /\ wpc[w] = "writing"
    /\ wPos[w] < ContentLen
    /\ \/ /\ files' = [files EXCEPT ![TempName(w)] =
                          Append(@, NewContent(w)[wPos[w] + 1])]
          /\ wPos' = [wPos EXCEPT ![w] = @ + 1]
          /\ UNCHANGED wpc
       \/ WriterFails(w)
    /\ UNCHANGED <<ingestVars, failVars, paperVars, surveyVars, replayVars, storeVars, moreVars>>

\* artifacts.go:25-27, 58-60, 87-89
CloseTemp(w) ==
    /\ wpc[w] = "writing"
    /\ wPos[w] = ContentLen
    /\ \/ /\ wpc' = [wpc EXCEPT ![w] = "closed"]
          /\ UNCHANGED <<files, wPos>>
       \/ WriterFails(w)
    /\ UNCHANGED <<ingestVars, failVars, paperVars, surveyVars, replayVars, storeVars, moreVars>>

\* artifacts.go:28-31, 61-64, 90-93: os.Rename replaces the final name in one
\* step
Rename(w) ==
    /\ wpc[w] = "closed"
    /\ \/ /\ files' = [files EXCEPT ![FinalName] = files[TempName(w)],
                                    ![TempName(w)] = NoFile]
          /\ wpc' = [wpc EXCEPT ![w] = "done"]
          /\ UNCHANGED wPos
       \/ WriterFails(w)
    /\ UNCHANGED <<ingestVars, failVars, paperVars, surveyVars, replayVars, storeVars, moreVars>>

NextFiles ==
    \/ \E w \in Writers : CreateTemp(w)
    \/ \E w \in Writers : WriteBlock(w)
    \/ \E w \in Writers : CloseTemp(w)
    \/ \E w \in Writers : Rename(w)

\* ------------------------------------------- replay of callEmbedWithFailover

\* Two executions of the same workflow code
Replicas == {1, 2}

\* What the history records for one EmbedChunksActivity: its result, and the
\* workflow clock's advance until the result is delivered
Recorded == [out : ErrorKinds \cup {"ok"}, d : ActivityDurations]

RECURSIVE SeqsUpTo(_, _)
\* The sequences over S of length at most n
SeqsUpTo(S, n) ==
    IF n = 0 THEN {<<>>}
    ELSE LET shorter == SeqsUpTo(S, n - 1) IN
         shorter \cup {Append(q, x) : q \in {t \in shorter : Len(t) = n - 1}, x \in S}

IdleReplay ==
    /\ rInput = EntryState("embed", 1, 0, -1, FALSE, 0, [p \in Prov |-> "any"])
    /\ rHist = <<>>
    /\ rpc = [r \in Replicas |-> "idle"]
    /\ rPos = [r \in Replicas |-> 0]
    /\ rAttempt = [r \in Replicas |-> 0]
    /\ rRetry = [r \in Replicas |-> NoRetries]
    /\ rUntil = [r \in Replicas |-> newProviderState]
    /\ rCmds = [r \in Replicas |-> <<>>]

\* Both executions get the same input and the same history
InitReplay ==
    /\ rInput \in SurveyEntries("embed")
    /\ rHist \in SeqsUpTo(Recorded, MaxHist)
    /\ rpc = [r \in Replicas |-> "loop"]
    /\ rPos = [r \in Replicas |-> 0]
    /\ rAttempt = [r \in Replicas |-> 0]
    /\ rRetry = [r \in Replicas |-> NoRetries]
    /\ rUntil = [r \in Replicas |-> newProviderState]
    /\ rCmds = [r \in Replicas |-> <<>>]

Pinned(e) == e.strict /\ e.preferredIdx >= 0

\* workflows.go:506-512
ReplayMaxAttempts(e) ==
    IF Pinned(e) THEN 4
    ELSE IF e.providerCount * 4 <= 0 THEN 4 ELSE e.providerCount * 4

\* a variant that takes any provider index, whatever the history
ReplayChoicesAny(e, att) == 0..(e.providerCount - 1)

\* workflows.go:514-521: the index is computed from the input and attempt
ReplayChoices(e, att) ==
    {IF Pinned(e) THEN e.preferredIdx
     ELSE IF e.preferredIdx >= 0 THEN (e.preferredIdx + att) % e.providerCount
     ELSE att % e.providerCount}

Cmd(a, n, s) == [act |-> a, n |-> n, s |-> s]

\* workflows.go:513-527 and 567-570: one pass through the loop head
ReplayLoopHead(r) ==
    /\ rpc[r] = "loop"
    /\ IF rAttempt[r] >= ReplayMaxAttempts(rInput)
         THEN /\ rpc' = [rpc EXCEPT ![r] = "done"]
              /\ UNCHANGED <<rAttempt, rCmds>>
         ELSE \E idx \in ReplayChoices(rInput, rAttempt[r]) :
                IF idx \in Prov /\ 0 < rUntil[r][idx]
                  THEN /\ rAttempt' = [rAttempt EXCEPT ![r] = @ + 1]
                       /\ UNCHANGED <<rpc, rCmds>>
                  ELSE /\ rpc' = [rpc EXCEPT ![r] = "await"]
                       /\ rCmds' = [rCmds EXCEPT ![r] = Append(@, Cmd("invoke", idx, ""))]
                       /\ UNCHANGED rAttempt
    /\ UNCHANGED <<rInput, rHist, rPos, rRetry, rUntil>>
    /\ UNCHANGED <<ingestVars, failVars, paperVars, surveyVars, fileVars, storeVars, moreVars>>

\* What follows a failed activity: sleep sl seconds or disable the provider
\* for dis seconds, and keep the attempt or not (workflows.go:537-565)
ReplayAfter(r, idx, d, sl, dis, keep, log) ==
    /\ rUntil' = [rUntil EXCEPT ![r] =
                    IF dis > 0 /\ idx \in Prov
                      THEN [Later(@, d) EXCEPT ![idx] = dis]
                      ELSE Later(@, d + sl)]
    /\ rCmds' = [rCmds EXCEPT ![r] =
                    IF sl > 0 THEN Append(Append(@, log), Cmd("sleep", sl, ""))
                              ELSE Append(@, log)]
    /\ rAttempt' = [rAttempt EXCEPT ![r] = IF keep THEN @ ELSE @ + 1]
    /\ rpc' = [rpc EXCEPT ![r] = "loop"]

\* workflows.go:527-566: the recorded result of the activity is delivered
ReplayResult(r) ==
    /\ rpc[r] = "await"
    /\ rPos[r] < Len(rHist)
    /\ LET h == rHist[rPos[r] + 1]
           idx == rCmds[r][Len(rCmds[r])].n
           rc == (IF idx \in Prov THEN rRetry[r][idx] ELSE 0) + 1
           st == rInput.strict
       IN /\ rPos' = [rPos EXCEPT ![r] = @ + 1]
          /\ IF h.out = "ok"
               THEN /\ rCmds' = [rCmds EXCEPT ![r] = Append(@, Cmd("log", idx, "ok"))]
                    /\ rpc' = [rpc EXCEPT ![r] = "done"]
                    /\ rUntil' = [rUntil EXCEPT ![r] = Later(@, h.d)]
                    /\ UNCHANGED <<rAttempt, rRetry>>
               ELSE /\ rRetry' = [rRetry EXCEPT ![r] =
                                    IF idx \in Prov THEN [@ EXCEPT ![idx] = rc] ELSE @]
                    /\ CASE h.out = "quota" ->
                              ReplayAfter(r, idx, h.d, 0, rInput.cooldown, FALSE,
                                          Cmd("log", idx, h.out))
                         [] h.out = "rate" ->
                              IF rc <= 2
                                THEN ReplayAfter(r, idx, h.d, rc * 2, 0, ~st,
                                                 Cmd("log", idx, h.out))
                                ELSE ReplayAfter(r, idx, h.d, 0, RateDisableSeconds, FALSE,
                                                 Cmd("log", idx, h.out))
                         [] h.out = "transient" ->
                              IF rc <= 2
                                THEN ReplayAfter(r, idx, h.d, rc, 0, ~st,
                                                 Cmd("log", idx, h.out))
                                ELSE ReplayAfter(r, idx, h.d, 0, 0, FALSE,
                                                 Cmd("log", idx, h.out))
                         [] OTHER ->
                              ReplayAfter(r, idx, h.d, 0, PermanentDisableSeconds, FALSE,
                                          Cmd("log", idx, h.out))
    /\ UNCHANGED <<rInput, rHist>>
    /\ UNCHANGED <<ingestVars, failVars, paperVars, surveyVars, fileVars, storeVars, moreVars>>

NextReplay ==
    \/ \E r \in Replicas : ReplayLoopHead(r)
    \/ \E r \in Replicas : ReplayResult(r)

\* ------------------------------------------------------------ the chunk store

Papers == 1..MaxPapers
Corpora == 1..MaxCorpora

\* Runes: 0 is a space, a negative rune is a control character
Space == 0

\* The text ExtractTextActivity returns for paper p; the paper id is the
\* SHA-256 of the file (activities.go:124-136), so a paper has one text
PaperText(p) == IF p = 1 THEN <<1, Space, 2, 3>> ELSE <<Space, 4, -1, 4 + p>>

ChunkSizeInputs == {0, 2}
ChunkOverlapInputs == {0}
ChunkVersionInputs == {"", "c2"}
EmbedVersionInputs == {"v1", "v2"}
SearchVersions == {"", "v1", "v2"}
TopKInputs == {0, 1}

\* strings.TrimSpace(v) == ""
Blank(v) == v \in {"", " "}

\* workflows.go:692-697
defaultChunkVersion(v) == IF Blank(v) THEN "v1" ELSE v

\* workflows.go:699-704
defaultEmbedVersion(v) == IF Blank(v) THEN "v0" ELSE v

RECURSIVE TrimLeft(_)
TrimLeft(t) == IF t # <<>> /\ Head(t) = Space THEN TrimLeft(Tail(t)) ELSE t

RECURSIVE TrimRight(_)
TrimRight(t) ==
    IF t # <<>> /\ t[Len(t)] = Space THEN TrimRight(SubSeq(t, 1, Len(t) - 1)) ELSE t

\* strings.TrimSpace on a sequence of runes
TrimSpace(t) == TrimRight(TrimLeft(t))

Printing(ch) == ch >= 0

\* util.SanitizeText (text_sanitize.go:7-27)
SanitizeText(t) == TrimSpace(SelectSeq(t, Printing))

RECURSIVE ChunkFrom(_, _, _, _)
\* artifacts.go:113-125: the loop of util.ChunkText, from rune i
ChunkFrom(runes, chunkSize, step, i) ==
    IF i >= Len(runes) THEN <<>>
    ELSE LET end == IF i + chunkSize > Len(runes) THEN Len(runes) ELSE i + chunkSize
             part == TrimSpace(SubSeq(runes, i + 1, end))
             rest == IF end = Len(runes) THEN <<>>
                     ELSE ChunkFrom(runes, chunkSize, step, i + step)
         IN IF part # <<>> THEN <<part>> \o rest ELSE rest

\* util.ChunkText (artifacts.go:100-127)
ChunkText(text, chunkSize, overlap) ==
    LET cs == IF chunkSize <= 0 THEN 1200 ELSE chunkSize
        ov == IF overlap < 0 \/ overlap >= cs THEN 0 ELSE overlap
    IN ChunkFrom(text, cs, cs - ov, 0)

\* The chunk id is a SHA-256 over paper id, index, text hash and chunk version
\* (activities.go:184-185): one id for each such tuple
ChunkIDOf(p, idx, part, version) == <<p, idx, part, version>>

\* ChunkTextActivity (activities.go:168-195): the ChunkItems, in order
ChunkItems(p, c, size, overlap, version) ==
    LET cs == IF size <= 0 THEN CfgChunkSize ELSE size
        ov == IF overlap < 0 \/ overlap >= cs THEN CfgChunkOverlap ELSE overlap
        raw == ChunkText(PaperText(p), cs, ov)
        all == [i \in 1..Len(raw) |->
                  [id |-> ChunkIDOf(p, i - 1, SanitizeText(raw[i]), version),
                   paper |-> p, corpus |-> c, index |-> i - 1,
                   text |-> SanitizeText(raw[i])]]
        kept(it) == it.text # <<>>
    IN SelectSeq(all, kept)

\* No vector (embedding IS NULL)
NoVec == [ver |-> "", by |-> ""]

\* A vector remembers the version its run was made for and who ran it
VecOf(ev, by) == [ver |-> ev, by |-> by]

\* UpsertChunksActivity (activities.go:197-216): the records, of which the
\* first nvec have a vector
Records(items, nvec, ev, by) ==
    [i \in 1..Len(items) |->
        [id |-> items[i].id, paper |-> items[i].paper, corpus |-> items[i].corpus,
         index |-> items[i].index, text |-> SanitizeText(items[i].text),
         ver |-> ev,
         vec |-> IF i <= nvec THEN VecOf(ev, by) ELSE NoVec]]

\* a variant of the upsert that takes the new record's vector as it is
MergeOverwrite(old, new) ==
    [old EXCEPT !.text = new.text, !.ver = new.ver, !.vec = new.vec]

\* ON CONFLICT (chunk_id) DO UPDATE (chunk repo, lines 44-48)
Merge(old, new) ==
    [old EXCEPT !.text = new.text, !.ver = new.ver,
                !.vec = IF new.vec # NoVec THEN new.vec ELSE old.vec]

Failed == {[id |-> <<0, 0, <<>>, "">>, paper |-> 0, corpus |-> 0, index |-> 0,
            text |-> <<>>, ver |-> "error", vec |-> NoVec]}

\* The INSERT ... ON CONFLICT of one record (chunk repo, lines 41-53); the
\* table has PRIMARY KEY chunk_id and UNIQUE (paper_id, chunk_index)
UpsertOne(tbl, rec) ==
    IF tbl = Failed THEN Failed
    ELSE IF \E r \in tbl : r.id = rec.id
      THEN {IF r.id = rec.id THEN Merge(r, rec) ELSE r : r \in tbl}
    ELSE IF \E r \in tbl : r.paper = rec.paper /\ r.index = rec.index
      THEN Failed
    ELSE tbl \cup {rec}

RECURSIVE UpsertFrom(_, _, _)
UpsertFrom(tbl, recs, i) ==
    IF i > Len(recs) THEN tbl ELSE UpsertFrom(UpsertOne(tbl, recs[i]), recs, i + 1)

\* ChunkRepo.UpsertChunks (lines 28-59): one transaction, rolled back on error
UpsertChunks(tbl, recs) ==
    LET out == UpsertFrom(tbl, recs, 1) IN IF out = Failed THEN tbl ELSE out

UpsertFails(tbl, recs) == UpsertFrom(tbl, recs, 1) = Failed

NoInput == [cv |-> "", ev |-> "", size |-> -1, overlap |-> -1]
NoRun == [paper |-> 0, ok |-> FALSE, fresh |-> {}, same |-> FALSE, sameEv |-> FALSE]
NoSearch == [corpus |-> 0, ver |-> "none", rows |-> {}]
NoBackfill == [corpus |-> 0, cv |-> "", ev |-> ""]

InitStore ==
    /\ chunks = {}
    /\ papersTbl = [p \in Papers |-> 0]
    /\ lastOf = [p \in Papers |-> NoInput]
    /\ lastRun = NoRun
    /\ found = NoSearch
    /\ bpc = "idle"
    /\ bInput = NoBackfill
    /\ bList = <<>>
    /\ bI = 0
    /\ bPre = FALSE
    /\ processed = 0
    /\ runs = 0

IdleStore == InitStore

\* One PaperProcessWorkflow run on paper p, from ChunkTextActivity to
\* UpsertChunksActivity (workflows.go:189-232). embedded: the embed call
\* returned vectors, nvec of them (a provider may return fewer vectors than
\* inputs); otherwise the workflow returns its error before the upsert.
RunPaper(p, c, in, embedded, nvec, by) ==
    LET items == ChunkItems(p, c, in.size, in.overlap, in.cv)
        recs == Records(items, nvec, in.ev, by)
        ok == embedded /\ ~UpsertFails(chunks, recs)
    IN /\ runs < MaxRuns
       /\ runs' = runs + 1
       /\ nvec <= Len(items)
       /\ chunks' = IF ok THEN UpsertChunks(chunks, recs) ELSE chunks
       /\ papersTbl' = [papersTbl EXCEPT ![p] = c]
       /\ lastOf' = IF ok THEN [lastOf EXCEPT ![p] = in] ELSE lastOf
       /\ lastRun' = [paper |-> p, ok |-> ok,
                      fresh |-> IF ok THEN {recs[i].id : i \in 1..nvec} ELSE {},
                      same |-> /\ lastOf[p].cv = in.cv
                               /\ lastOf[p].size = in.size
                               /\ lastOf[p].overlap = in.overlap,
                      sameEv |-> lastOf[p].ev = in.ev]

RunInputs ==
    {[cv |-> defaultChunkVersion(cv), ev |-> defaultEmbedVersion(ev),
      size |-> size, overlap |-> ov] :
        cv \in ChunkVersionInputs, ev \in EmbedVersionInputs,
        size \in ChunkSizeInputs, ov \in ChunkOverlapInputs}

\* PaperProcessWorkflow started on its own or by CorpusIngestWorkflow
PaperProcessRun ==
    /\ bpc = "idle"
    /\ \E p \in Papers, c \in Corpora, in \in RunInputs, embedded \in BOOLEAN,
          nvec \in 0..4 :
        /\ embedded \/ nvec = 0
        /\ RunPaper(p, c, in, embedded, nvec, "run")
    /\ UNCHANGED <<found, bpc, bInput, bList, bI, bPre, processed>>
    /\ UNCHANGED <<ingestVars, failVars, paperVars, surveyVars, fileVars, replayVars, moreVars>>

\* Searcher.SearchChunks (searcher, lines 30-65): the rows the WHERE clause
\* admits, of which ORDER BY distance LIMIT topK keeps some topK
Matching(c, v) ==
    {r \in chunks : /\ r.corpus = c
                    /\ r.vec # NoVec
                    /\ papersTbl[r.paper] # 0
                    /\ Blank(v) \/ r.ver = v}

SearchChunks ==
    /\ \E c \in Corpora, v \in SearchVersions, topK \in TopKInputs :
        LET k == IF topK <= 0 THEN 8 ELSE topK
            m == Matching(c, v)
        IN \E res \in SUBSET m :
            /\ Cardinality(res) = IF Cardinality(m) < k THEN Cardinality(m) ELSE k
            /\ found' = [corpus |-> c, ver |-> v, rows |-> res]
    /\ UNCHANGED <<chunks, papersTbl, lastOf, lastRun, bpc, bInput, bList, bI, bPre,
                   processed, runs>>
    /\ UNCHANGED <<ingestVars, failVars, paperVars, surveyVars, fileVars, replayVars, moreVars>>

RECURSIVE SeqOfSet(_)
\* ListCorpusPapersActivity: the papers rows of the corpus, in a fixed order
SeqOfSet(S) ==
    IF S = {} THEN <<>>
    ELSE LET x == CHOOSE y \in S : \A z \in S : y <= z IN <<x>> \o SeqOfSet(S \ {x})

\* Every chunk row of corpus c is labelled v1, holds a v1 vector and was
\* chunked under chunk version cv, and there are such rows
EmbeddedUnder(c, cv, ev) ==
    /\ \E r \in chunks : r.corpus = c
    /\ \A r \in chunks : r.corpus = c =>
          /\ r.ver = ev
          /\ r.vec # NoVec /\ r.vec.ver = ev
          /\ r.id[4] = cv
          /\ papersTbl[r.paper] = c

\* BackfillWorkflow, mode REEMBED_ALL_PAPERS, up to the list of papers
\* (workflows.go:399-442)
BackfillStart ==
    /\ bpc = "idle"
    /\ \E c \in Corpora, cv \in ChunkVersionInputs, ev \in EmbedVersionInputs :
        /\ bInput' = [corpus |-> c, cv |-> defaultChunkVersion(cv),
                      ev |-> defaultEmbedVersion(ev)]
        /\ bList' = SeqOfSet({p \in Papers : papersTbl[p] = c})
        /\ bPre' = /\ defaultEmbedVersion(ev) = "v2"
                   /\ EmbeddedUnder(c, defaultChunkVersion(cv), "v1")
    /\ bpc' = "loop"
    /\ bI' = 0
    /\ processed' = 0
    /\ UNCHANGED <<chunks, papersTbl, lastOf, lastRun, found, runs>>
    /\ UNCHANGED <<ingestVars, failVars, paperVars, surveyVars, fileVars, replayVars, moreVars>>

\* workflows.go:444-462: the child PaperProcessWorkflow of the next paper,
\* which gets no chunk size or overlap, awaited
BackfillChild ==
    /\ bpc = "loop"
    /\ bI < Len(bList)
    /\ \E embedded \in BOOLEAN, nvec \in 0..4 :
        /\ embedded \/ nvec = 0
        /\ RunPaper(bList[bI + 1], bInput.corpus,
                    [cv |-> bInput.cv, ev |-> bInput.ev, size |-> 0, overlap |-> 0],
                    embedded, nvec, "backfill")
    /\ bI' = bI + 1
    /\ processed' = IF lastRun'.ok THEN processed + 1 ELSE processed
    /\ UNCHANGED <<found, bpc, bInput, bList, bPre>>
    /\ UNCHANGED <<ingestVars, failVars, paperVars, surveyVars, fileVars, replayVars, moreVars>>

\* workflows.go:463-498: the manifest is written and the workflow returns
WriteRunManifestActivity ==
    /\ bpc = "loop"
    /\ bI = Len(bList)
    /\ bpc' = "done"
    /\ UNCHANGED <<chunks, papersTbl, lastOf, lastRun, found, bInput, bList, bI, bPre,
                   processed, runs>>
    /\ UNCHANGED <<ingestVars, failVars, paperVars, surveyVars, fileVars, replayVars, moreVars>>

NextSearch ==
    \/ PaperProcessRun
    \/ SearchChunks

NextStore ==
    \/ PaperProcessRun
    \/ BackfillStart
    \/ BackfillChild
    \/ WriteRunManifestActivity

\* ------------------------------------------- REEMBED_ALL_PAPERS and providers

NoReembed == [providerCount |-> 1, preferredIdx |-> -1, strict |-> FALSE, cooldown |-> 0]

IdleReembed ==
    /\ rePc = "idle"
    /\ reInput = NoReembed
    /\ reLeft = 0
    /\ reUsed = {}

\* handleBackfill (server.go:638-694) for mode REEMBED_ALL_PAPERS: found is
\* FindEmbedProviderIndex(req.EmbedProvider), -1 for a blank embed_provider
InitReembed ==
    /\ rePc = "loop"
    /\ \E n \in 1..MaxProviders, idx \in -1..(MaxProviders - 1), c \in CooldownInputs :
        /\ idx < n
        /\ reInput = [providerCount |-> n, preferredIdx |-> idx,
                      strict |-> idx >= 0, cooldown |-> c]
    /\ reLeft \in 1..MaxBackfillPapers
    /\ reUsed = {}

\* The provider indexes the failover call in hand has invoked so far
InvokedIdx ==
    {p \in Prov : retryCounts[p] > 0} \cup
        (IF fop = "embed" /\ (fpc = "await" \/ fResult = "ok") THEN {curIdx} ELSE {})

\* workflows.go:444-459 and 196-212: the child of the next paper reaches its
\* embed step with the backfill's provider arguments
ReembedChild ==
    /\ rePc = "loop"
    /\ reLeft > 0
    /\ rePc' = "child"
    /\ EnterCall(EntryState("embed", reInput.providerCount, 0, reInput.preferredIdx,
                            reInput.strict, reInput.cooldown, [p \in Prov |-> "any"]))
    /\ UNCHANGED <<reInput, reLeft, reUsed>>
    /\ UNCHANGED <<ingestVars, paperVars, surveyVars, fileVars, replayVars, storeVars>>
    /\ UNCHANGED restReembed

\* workflows.go:459-461: the child returns
ReembedChildReturn ==
    /\ rePc = "child"
    /\ fpc = "done"
    /\ reUsed' = reUsed \cup InvokedIdx
    /\ reLeft' = reLeft - 1
    /\ rePc' = "loop"
    /\ LeaveCall
    /\ UNCHANGED reInput
    /\ UNCHANGED <<ingestVars, paperVars, surveyVars, fileVars, replayVars, storeVars>>
    /\ UNCHANGED restReembed

\* workflows.go:463-498
ReembedDone ==
    /\ rePc = "loop"
    /\ reLeft = 0
    /\ rePc' = "done"
    /\ UNCHANGED <<reInput, reLeft, reUsed>>
    /\ UNCHANGED <<ingestVars, failVars, paperVars, surveyVars, fileVars, replayVars,
                   storeVars>>
    /\ UNCHANGED restReembed

NextReembed ==
    \/ ReembedChild
    \/ LoopHead
    \/ EmbedComplete
    \/ ReembedChildReturn
    \/ ReembedDone

\* ------------------------------------------------------ KG Extract Paper

KGRun(st, n) == [status |-> st, triple_count |-> n]

NoKGRun == KGRun("none", 0)

IdleKG ==
    /\ kpc = "idle"
    /\ kEntry = EntryState("llm", 1, 0, -1, FALSE, 0, [p \in Prov |-> "any"])
    /\ kListed = FALSE
    /\ kChunks = 0
    /\ kI = 0
    /\ llmFailures = 0
    /\ kTriples = 0
    /\ kUpsert = "none"
    /\ kPending = NoKGRun
    /\ kMarks = <<>>
    /\ kRow = NoKGRun
    /\ kResult = "none"

\* kg_workflows.go:83-94
InitKG ==
    /\ kpc = "start"
    /\ kEntry \in SurveyEntries("llm")
    /\ kListed = FALSE
    /\ kChunks = 0
    /\ kI = 0
    /\ llmFailures = 0
    /\ kTriples = 0
    /\ kUpsert = "none"
    /\ kPending = NoKGRun
    /\ kMarks = <<>>
    /\ kRow = NoKGRun
    /\ kResult = "none"

\* MarkKGPaperRunActivity, awaited, its error dropped (GraphRepo.UpsertKGRun
\* sets status and triple_count of the run's row)
MarkKGPaperRun(rec) ==
    /\ kMarks' = Append(kMarks, rec)
    /\ \E ok \in BOOLEAN : kRow' = IF ok THEN rec ELSE kRow

\* kg_workflows.go:95-101
KGMarkRunning ==
    /\ kpc = "start"
    /\ MarkKGPaperRun(KGRun("running", 0))
    /\ kpc' = "list"
    /\ UNCHANGED <<kEntry, kListed, kChunks, kI, llmFailures, kTriples, kUpsert,
                   kPending, kResult>>
    /\ UNCHANGED <<ingestVars, failVars, paperVars, surveyVars, fileVars, replayVars,
                   storeVars>>
    /\ UNCHANGED restKG

\* kg_workflows.go:103-119: ListPaperChunksActivity returns
ListPaperChunksActivity ==
    /\ kpc = "list"
    /\ \/ /\ kpc' = "mark"
          /\ kPending' = KGRun("failed", 0)
          /\ UNCHANGED <<kListed, kChunks>>
       \/ \E n \in 0..MaxChunks :
          /\ kListed' = TRUE
          /\ kChunks' = n
          /\ kpc' = "loop"
          /\ UNCHANGED kPending
    /\ UNCHANGED <<kEntry, kI, llmFailures, kTriples, kUpsert, kMarks, kRow, kResult>>
    /\ UNCHANGED <<ingestVars, failVars, paperVars, surveyVars, fileVars, replayVars,
                   storeVars>>
    /\ UNCHANGED restKG

\* kg_workflows.go:120-127: callLLMWithFailover for the next chunk, on the
\* providerState of the workflow
KGNextChunk ==
    /\ kpc = "loop"
    /\ kI < kChunks
    /\ kpc' = "llm"
    /\ IF kI = 0 THEN EnterCall(kEntry) ELSE ReenterLLM
    /\ UNCHANGED <<kEntry, kListed, kChunks, kI, llmFailures, kTriples, kUpsert,
                   kPending, kMarks, kRow, kResult>>
    /\ UNCHANGED <<ingestVars, paperVars, surveyVars, fileVars, replayVars, storeVars>>
    /\ UNCHANGED restKG

\* kg_workflows.go:128-136: the call returned; ParseTriplesJSON gives some
\* number of triples
KGChunkReturn ==
    /\ kpc = "llm"
    /\ fpc = "done"
    /\ kI' = kI + 1
    /\ kpc' = "loop"
    /\ IF fResult = "ok"
         THEN /\ \E parsed \in 0..MaxParsed : kTriples' = kTriples + parsed
              /\ UNCHANGED llmFailures
         ELSE /\ llmFailures' = llmFailures + 1
              /\ UNCHANGED kTriples
    /\ UNCHANGED <<kEntry, kListed, kChunks, kUpsert, kPending, kMarks, kRow, kResult>>
    /\ UNCHANGED <<ingestVars, failVars, paperVars, surveyVars, fileVars, replayVars,
                   storeVars>>
    /\ UNCHANGED restKG

\* a variant that gives the paper up after one failed chunk
AnyChunkFailed == llmFailures > 0

\* a variant that never gives the paper up
NoChunkFailed == FALSE

\* kg_workflows.go:138
AllChunksFailed == kChunks > 0 /\ llmFailures = kChunks

\* kg_workflows.go:138-150: after the loop
KGAfterLoop ==
    /\ kpc = "loop"
    /\ kI = kChunks
    /\ IF AllChunksFailed
         THEN /\ kpc' = "mark"
              /\ kPending' = KGRun("failed", 0)
         ELSE /\ kpc' = "upsert"
              /\ UNCHANGED kPending
    /\ IF kChunks > 0 THEN LeaveCall ELSE UNCHANGED failVars
    /\ UNCHANGED <<kEntry, kListed, kChunks, kI, llmFailures, kTriples, kUpsert,
                   kMarks, kRow, kResult>>
    /\ UNCHANGED <<ingestVars, paperVars, surveyVars, fileVars, replayVars, storeVars>>
    /\ UNCHANGED restKG

\* kg_workflows.go:151-168: UpsertKGTriplesActivity returns
UpsertKGTriplesActivity ==
    /\ kpc = "upsert"
    /\ \E ok \in BOOLEAN :
        /\ kUpsert' = IF ok THEN "ok" ELSE "error"
        /\ kPending' = KGRun(IF ok THEN "completed" ELSE "failed", kTriples)
    /\ kpc' = "mark"
    /\ UNCHANGED <<kEntry, kListed, kChunks, kI, llmFailures, kTriples, kMarks, kRow,
                   kResult>>
    /\ UNCHANGED <<ingestVars, failVars, paperVars, surveyVars, fileVars, replayVars,
                   storeVars>>
    /\ UNCHANGED restKG

\* kg_workflows.go:105-113, 139-148, 158-167, 169-177: the closing
\* MarkKGPaperRunActivity and the return
KGMarkAndReturn ==
    /\ kpc = "mark"
    /\ MarkKGPaperRun(kPending)
    /\ kResult' = kPending.status
    /\ kpc' = "done"
    /\ UNCHANGED <<kEntry, kListed, kChunks, kI, llmFailures, kTriples, kUpsert,
                   kPending>>
    /\ UNCHANGED <<ingestVars, failVars, paperVars, surveyVars, fileVars, replayVars,
                   storeVars>>
    /\ UNCHANGED restKG

NextKG ==
    \/ KGMarkRunning
    \/ ListPaperChunksActivity
    \/ KGNextChunk
    \/ LoopHead
    \/ LLMComplete
    \/ KGChunkReturn
    \/ KGAfterLoop
    \/ UpsertKGTriplesActivity
    \/ KGMarkAndReturn

\* ------------------------------------------------------------ graph triples

Names == {"BERT", "bert", "GPT"}

\* slug (graph repo, lines 1105-1111): lower case, blanks to underscores
Slug(name) == IF name \in {"BERT", "bert"} THEN "bert" ELSE "gpt"

Target == "GLUE"

\* KGTripleInput: source name, chunk id and confidence vary
KGTriples == [src : Names, chunk : 1..MaxChunks, conf : 1..2]

NodeIDs == {Slug(n) : n \in Names} \cup {"glue"}

\* source node, target node, relation type (graph repo, lines 945-947)
EdgeKeyOf(t) == <<Slug(t.src), "glue", "USES">>

EdgeKeys == {EdgeKeyOf(t) : t \in KGTriples}

\* The provenance entry of a triple (graph repo, lines 985-992); the evidence
\* is the text the name was found in
ProvOf(t) == [chunk |-> t.chunk, evidence |-> t.src, conf |-> t.conf]

\* The batches an extraction makes: ParseTriplesJSON keeps one triple for each
\* source, relation and target of a chunk
Batches ==
    {b \in SeqsUpTo(KGTriples, MaxBatch) :
        \A i, j \in 1..Len(b) :
            (b[i].src = b[j].src /\ b[i].chunk = b[j].chunk) => i = j}

NoEdge == [support |-> 0, prov |-> <<>>, weight |-> 0]

InitGraph ==
    /\ nodes = [n \in NodeIDs |-> {}]
    /\ edges = [k \in EdgeKeys |-> NoEdge]
    /\ gUpserts = 0

IdleGraph == InitGraph

\* INSERT INTO graph_nodes ... ON CONFLICT: DISTINCT aliases (lines 949-980)
UpsertNode(ns, id, alias) == [ns EXCEPT ![id] = @ \cup {alias}]

\* INSERT INTO graph_edges ... ON CONFLICT (lines 994-1006)
UpsertEdge(es, t) ==
    [es EXCEPT ![EdgeKeyOf(t)] =
        IF @ = NoEdge
          THEN [support |-> 1, prov |-> <<ProvOf(t)>>, weight |-> t.conf]
          ELSE [support |-> @.support + 1,
                prov |-> @.prov \o <<ProvOf(t)>>,
                weight |-> IF @.weight > t.conf THEN @.weight ELSE t.conf]]

RECURSIVE EdgesFrom(_, _, _)
EdgesFrom(es, batch, i) ==
    IF i > Len(batch) THEN es ELSE EdgesFrom(UpsertEdge(es, batch[i]), batch, i + 1)

RECURSIVE NodesFrom(_, _, _)
NodesFrom(ns, batch, i) ==
    IF i > Len(batch) THEN ns
    ELSE NodesFrom(UpsertNode(UpsertNode(ns, Slug(batch[i].src), batch[i].src),
                              "glue", Target), batch, i + 1)

\* GraphRepo.UpsertKGTriples (lines 929-1015): one transaction over the batch
UpsertKGTriples ==
    /\ gUpserts < MaxUpserts
    /\ gUpserts' = gUpserts + 1
    /\ \E batch \in Batches, ok \in BOOLEAN :
        IF ok /\ batch # <<>>
          THEN /\ nodes' = NodesFrom(nodes, batch, 1)
               /\ edges' = EdgesFrom(edges, batch, 1)
          ELSE UNCHANGED <<nodes, edges>>
    /\ UNCHANGED <<ingestVars, failVars, paperVars, surveyVars, fileVars, replayVars,
                   storeVars>>
    /\ UNCHANGED restGraph

NextGraph == UpsertKGTriples

\* ------------------------------------------------------------ ClassifyError

\* An error text is the sequence of its characters.
LowerCase == <<"a", "b", "c", "d", "e", "f", "g", "h", "i", "j", "k", "l", "m",
               "n", "o", "p", "q", "r", "s", "t", "u", "v", "w", "x", "y", "z">>

UpperCase == <<"A", "B", "C", "D", "E", "F", "G", "H", "I", "J", "K", "L", "M",
               "N", "O", "P", "Q", "R", "S", "T", "U", "V", "W", "X", "Y", "Z">>

\* strings.ToLower, strings.ToUpper
ToLower(s) ==
    [i \in 1..Len(s) |->
        IF \E k \in 1..Len(UpperCase) : UpperCase[k] = s[i]
          THEN LowerCase[CHOOSE k \in 1..Len(UpperCase) : UpperCase[k] = s[i]]
          ELSE s[i]]

ToUpper(s) ==
    [i \in 1..Len(s) |->
        IF \E k \in 1..Len(LowerCase) : LowerCase[k] = s[i]
          THEN UpperCase[CHOOSE k \in 1..Len(LowerCase) : LowerCase[k] = s[i]]
          ELSE s[i]]

\* strings.Contains
Contains(s, sub) ==
    \E i \in 0..(Len(s) - Len(sub)) : SubSeq(s, i + 1, i + Len(sub)) = sub

TxtQuota == <<"q", "u", "o", "t", "a">>

TxtCredit == <<"c", "r", "e", "d", "i", "t">>

TxtInsufficient == <<"i", "n", "s", "u", "f", "f", "i", "c", "i", "e", "n", "t", "_", "q", "u", "o", "t", "a">>

TxtRate == <<"r", "a", "t", "e">>

Txt429 == <<"4", "2", "9">>

TxtContext == <<"c", "o", "n", "t", "e", "x", "t">>

TxtTooLong == <<"t", "o", "o", " ", "l", "o", "n", "g">>

TxtTimeout == <<"t", "i", "m", "e", "o", "u", "t">>

TxtTemporarily == <<"t", "e", "m", "p", "o", "r", "a", "r", "i", "l", "y">>

TxtUnavailable == <<"u", "n", "a", "v", "a", "i", "l", "a", "b", "l", "e">>

\* provider messages without a trigger, or with letters in upper case
TxtBadRequest == <<"b", "a", "d", " ", "r", "e", "q", "u", "e", "s", "t">>

TxtUpperRate == <<"R", "A", "T", "E">>

TxtMixedQuota == <<"Q", "u", "o", "t", "a">>

TxtContextTooLong == <<"C", "o", "n", "t", "e", "x", "t", " ", "T", "o", "o", " ", "L", "o", "n", "g">>

TxtError400 == <<"e", "r", "r", "o", "r", " ", "4", "0", "0">>

TxtSep == <<":", " ">>

\* activities.go:288: "llm generate via %s failed: %w"
TxtLLMGenerateVia == <<"l", "l", "m", " ", "g", "e", "n", "e", "r", "a", "t", "e", " ", "v", "i", "a", " ">>

TxtFailed == <<" ", "f", "a", "i", "l", "e", "d", ":", " ">>

\* the provider references of the worker (ref.Raw)
ProviderRefs == {<<"g", "r", "o", "q">>, <<"o", "p", "e", "n", "a", "i", ":", "g", "p", "t">>}

ErrorWords ==
    {TxtQuota, TxtCredit, TxtInsufficient, TxtRate, Txt429, TxtContext, TxtTooLong, TxtTimeout, TxtTemporarily, TxtUnavailable, TxtBadRequest, TxtUpperRate, TxtMixedQuota, TxtContextTooLong, TxtError400}

\* the error texts a provider returns: one message, or two joined by ": "
ErrorTexts == ErrorWords \cup {a \o TxtSep \o b : a, b \in ErrorWords}

\* graph/types.go:100-117 (package providers)
ClassifyErrorContextFirst(e) ==
    LET l == ToLower(e) IN
    IF Contains(l, TxtContext) \/ Contains(l, TxtTooLong) THEN "context"
    ELSE IF Contains(l, TxtQuota) \/ Contains(l, TxtCredit)
            \/ Contains(l, TxtInsufficient) THEN "quota"
    ELSE IF Contains(l, TxtRate) \/ Contains(l, Txt429) THEN "rate"
    ELSE IF Contains(l, TxtTimeout) \/ Contains(l, TxtTemporarily)
            \/ Contains(l, TxtUnavailable) THEN "transient"
    ELSE "permanent"

ClassifyError(e) ==
    LET l == ToLower(e) IN
    IF Contains(l, TxtQuota) \/ Contains(l, TxtCredit)
       \/ Contains(l, TxtInsufficient) THEN "quota"
    ELSE IF Contains(l, TxtRate) \/ Contains(l, Txt429) THEN "rate"
    ELSE IF Contains(l, TxtContext) \/ Contains(l, TxtTooLong) THEN "context"
    ELSE IF Contains(l, TxtTimeout) \/ Contains(l, TxtTemporarily)
            \/ Contains(l, TxtUnavailable) THEN "transient"
    ELSE "permanent"

IdleClassify ==
    /\ cePc = "idle"
    /\ ceNil = TRUE
    /\ ceProv = <<>>
    /\ ceText = <<>>
    /\ ceVia = "none"
    /\ ceKind = "none"

\* a provider call has returned: no error, or an error with some text
InitClassify ==
    /\ cePc = "start"
    /\ ceNil \in BOOLEAN
    /\ ceProv \in (IF ceNil THEN {<<>>} ELSE ErrorTexts)
    /\ ceText = <<>>
    /\ ceVia = "none"
    /\ ceKind = "none"

\* ClassifyError on the provider's error itself: EmbedChunksActivity and
\* EmbedQueryActivity return it as it is (activities.go:264, 305), and the
\* workflow classifies it (workflows.go:533, 592); nil gives the empty type
ClassifyProviderError ==
    /\ cePc = "start"
    /\ cePc' = "done"
    /\ ceVia' = "embed"
    /\ ceText' = ceProv
    /\ ceKind' = IF ceNil THEN "" ELSE ClassifyError(ceProv)
    /\ UNCHANGED <<ceNil, ceProv>>
    /\ UNCHANGED <<ingestVars, failVars, paperVars, surveyVars, fileVars, replayVars,
                   storeVars>>
    /\ UNCHANGED restClassify

\* activities.go:273-295: LLMGenerateActivity returns; a provider error is
\* wrapped. The error the workflow receives carries at least this text.
LLMGenerateActivity ==
    /\ cePc = "start"
    /\ \E ref \in ProviderRefs :
        ceText' = IF ceNil THEN <<>>
                  ELSE TxtLLMGenerateVia \o ref \o TxtFailed \o ceProv
    /\ cePc' = "returned"
    /\ ceVia' = "llm"
    /\ UNCHANGED <<ceNil, ceProv, ceKind>>
    /\ UNCHANGED <<ingestVars, failVars, paperVars, surveyVars, fileVars, replayVars,
                   storeVars>>
    /\ UNCHANGED restClassify

\* workflows.go:635-643: callLLMWithFailover returns the output when err is
\* nil, and classifies the error otherwise
LLMClassify ==
    /\ cePc = "returned"
    /\ cePc' = "done"
    /\ ceKind' = IF ceNil THEN "none" ELSE ClassifyError(ceText)
    /\ UNCHANGED <<ceNil, ceProv, ceText, ceVia>>
    /\ UNCHANGED <<ingestVars, failVars, paperVars, surveyVars, fileVars, replayVars,
                   storeVars>>
    /\ UNCHANGED restClassify

NextClassify ==
    \/ ClassifyProviderError
    \/ LLMGenerateActivity
    \/ LLMClassify

\* ------------------------------------------- BackfillWorkflow: the modes

ModeRetryFailed == <<"R", "E", "T", "R", "Y", "_", "F", "A", "I", "L", "E", "D", "_", "P", "A", "P", "E", "R", "S">>

ModeReembedAll == <<"R", "E", "E", "M", "B", "E", "D", "_", "A", "L", "L", "_", "P", "A", "P", "E", "R", "S">>

ModeRegenerateSurvey == <<"R", "E", "G", "E", "N", "E", "R", "A", "T", "E", "_", "S", "U", "R", "V", "E", "Y">>

\* the values of input.Mode
ModeInputs ==
    {<<"R", "E", "T", "R", "Y", "_", "F", "A", "I", "L", "E", "D", "_", "P", "A", "P", "E", "R", "S">>,
     <<" ", "r", "e", "t", "r", "y", "_", "f", "a", "i", "l", "e", "d", "_", "p", "a", "p", "e", "r", "s">>,
     <<"R", "E", "E", "M", "B", "E", "D", "_", "A", "L", "L", "_", "P", "A", "P", "E", "R", "S">>,
     <<"r", "e", "e", "m", "b", "e", "d", "_", "a", "l", "l", "_", "p", "a", "p", "e", "r", "s", " ">>,
     <<"R", "e", "e", "m", "b", "e", "d", "_", "A", "l", "l", "_", "P", "a", "p", "e", "r", "s">>,
     <<"R", "E", "G", "E", "N", "E", "R", "A", "T", "E", "_", "S", "U", "R", "V", "E", "Y">>,
     <<" ", "R", "e", "g", "e", "n", "e", "r", "a", "t", "e", "_", "S", "u", "r", "v", "e", "y", " ">>,
     <<"r", "e", "g", "e", "n", "e", "r", "a", "t", "e", "_", "s", "u", "r", "v", "e", "y">>,
     <<>>,
     <<" ">>,
     <<"R", "E", "I", "N", "D", "E", "X">>,
     <<"r", "e", "t", "r", "y", "_", "f", "a", "i", "l", "e", "d">>,
     <<"R", "E", "E", "M", "B", "E", "D", " ", "A", "L", "L", " ", "P", "A", "P", "E", "R", "S">>,
     <<"R", "E", "E", "M", "B", "E", "D", "_", "A", "L", "L", "_", "P", "A", "P", "E", "R", "S", "_">>,
     <<"s", "u", "r", "v", "e", "y">>}

WhiteSpace == {" ", "\t"}

RECURSIVE TrimLeftText(_)
TrimLeftText(s) ==
    IF s # <<>> /\ Head(s) \in WhiteSpace THEN TrimLeftText(Tail(s)) ELSE s

RECURSIVE TrimRightText(_)
TrimRightText(s) ==
    IF s # <<>> /\ s[Len(s)] \in WhiteSpace
      THEN TrimRightText(SubSeq(s, 1, Len(s) - 1))
      ELSE s

\* strings.TrimSpace on a text
TrimSpaceText(s) == TrimRightText(TrimLeftText(s))

\* a variant that takes every mode for REEMBED_ALL_PAPERS
ModeOfAny(mode) == ModeReembedAll

\* workflows.go:414: strings.ToUpper(strings.TrimSpace(input.Mode))
ModeOf(mode) == ToUpper(TrimSpaceText(mode))

IdleMode ==
    /\ mpc = "idle"
    /\ mMode = <<>>
    /\ mActs = <<>>
    /\ mKids = 0
    /\ mLeft = 0
    /\ mManifest = FALSE
    /\ mCount = 0
    /\ mGood = 0
    /\ mResult = "none"

InitMode ==
    /\ mpc = "start"
    /\ mMode \in ModeInputs
    /\ mActs = <<>>
    /\ mKids = 0
    /\ mLeft = 0
    /\ mManifest = FALSE
    /\ mCount = 0
    /\ mGood = 0
    /\ mResult = "none"

\* workflows.go:399-420, 442-445, 469-487: the manifest map is built in
\* memory and the switch on the mode starts the mode's first activity or
\* child workflow; the default case returns the error
DispatchMode ==
    /\ mpc = "start"
    /\ LET m == ModeOf(mMode) IN
        IF m = ModeRetryFailed
          THEN /\ mActs' = Append(mActs, "ListFailedPapersActivity")
               /\ mpc' = "list"
               /\ UNCHANGED <<mKids, mResult>>
        ELSE IF m = ModeReembedAll
          THEN /\ mActs' = Append(mActs, "ListCorpusPapersActivity")
               /\ mpc' = "list"
               /\ UNCHANGED <<mKids, mResult>>
        ELSE IF m = ModeRegenerateSurvey
          THEN /\ mKids' = mKids + 1
               /\ mpc' = "survey"
               /\ UNCHANGED <<mActs, mResult>>
        ELSE /\ mResult' = "error"
             /\ mpc' = "done"
             /\ UNCHANGED <<mActs, mKids>>
    /\ UNCHANGED <<mMode, mLeft, mManifest, mCount, mGood>>
    /\ UNCHANGED <<ingestVars, failVars, paperVars, surveyVars, fileVars, replayVars,
                   storeVars>>
    /\ UNCHANGED restMode

\* workflows.go:417-419, 443-445: the list activity returns its papers, or
\* an error that ends the workflow
ModeListed ==
    /\ mpc = "list"
    /\ \E ok \in BOOLEAN, n \in 0..MaxBackfillPapers :
        IF ok
          THEN /\ mLeft' = n
               /\ mpc' = "children"
               /\ UNCHANGED mResult
          ELSE /\ mResult' = "error"
               /\ mpc' = "done"
               /\ UNCHANGED mLeft
    /\ UNCHANGED <<mMode, mActs, mKids, mManifest, mCount, mGood>>
    /\ UNCHANGED <<ingestVars, failVars, paperVars, surveyVars, fileVars, replayVars,
                   storeVars>>
    /\ UNCHANGED restMode

\* what a PaperProcessWorkflow child ends with: one of its two results, or a
\* workflow-level error
ChildOutcomes == {"processed", "failed", "error"}

\* workflows.go:421-438, 447-466: the child PaperProcessWorkflow of the next
\* paper, awaited; it is counted when Get returns no error
ModeChild ==
    /\ mpc = "children"
    /\ mLeft > 0
    /\ mKids' = mKids + 1
    /\ mLeft' = mLeft - 1
    /\ \E out \in ChildOutcomes :
        /\ mCount' = IF out # "error" THEN mCount + 1 ELSE mCount
        /\ mGood' = IF out = "processed" THEN mGood + 1 ELSE mGood
    /\ UNCHANGED <<mpc, mMode, mActs, mManifest, mResult>>
    /\ UNCHANGED <<ingestVars, failVars, paperVars, surveyVars, fileVars, replayVars,
                   storeVars>>
    /\ UNCHANGED restMode

\* workflows.go:475-487: the child SurveyBuildWorkflow returns
ModeSurveyReturn ==
    /\ mpc = "survey"
    /\ \E ok \in BOOLEAN :
        IF ok
          THEN /\ mpc' = "children"
               /\ UNCHANGED mResult
          ELSE /\ mResult' = "error"
               /\ mpc' = "done"
    /\ UNCHANGED <<mMode, mActs, mKids, mLeft, mManifest, mCount, mGood>>
    /\ UNCHANGED <<ingestVars, failVars, paperVars, surveyVars, fileVars, replayVars,
                   storeVars>>
    /\ UNCHANGED restMode

\* workflows.go:490-498: WriteRunManifestActivity, and the return of its path
\* or of its error
ModeWriteManifest ==
    /\ mpc = "children"
    /\ mLeft = 0
    /\ mActs' = Append(mActs, "WriteRunManifestActivity")
    /\ \E ok \in BOOLEAN :
        /\ mManifest' = ok
        /\ mResult' = IF ok THEN "path" ELSE "error"
    /\ mpc' = "done"
    /\ UNCHANGED <<mMode, mKids, mLeft, mCount, mGood>>
    /\ UNCHANGED <<ingestVars, failVars, paperVars, surveyVars, fileVars, replayVars,
                   storeVars>>
    /\ UNCHANGED restMode

NextMode ==
    \/ DispatchMode
    \/ ModeListed
    \/ ModeChild
    \/ ModeSurveyReturn
    \/ ModeWriteManifest

\* --------------------------------------- the ids of the ingest's children

\* the characters of the paths, in byte order
ByteOrder == <<"-", ".", "/", "1", "A", "B", "D", "F", "P", "_",
               "a", "b", "c", "d", "f", "i", "n", "p">>

Rank(c) == CHOOSE k \in 1..Len(ByteOrder) : ByteOrder[k] = c

\* the order of sort.Strings
RECURSIVE LessText(_, _)
LessText(a, b) ==
    IF b = <<>> THEN FALSE
    ELSE IF a = <<>> THEN TRUE
    ELSE IF Head(a) = Head(b) THEN LessText(Tail(a), Tail(b))
    ELSE Rank(Head(a)) < Rank(Head(b))

\* activities.go:63: sort.Strings(paths)
RECURSIVE SortTexts(_)
SortTexts(S) ==
    IF S = {} THEN <<>>
    ELSE LET x == CHOOSE y \in S : \A z \in S \ {y} : LessText(y, z)
         IN <<x>> \o SortTexts(S \ {x})

\* the names a corpus directory may hold
PDFNames ==
    {<<"a", "_", "b", ".", "p", "d", "f">>,
     <<"a", ".", "b", ".", "p", "d", "f">>,
     <<"a", "-", "b", ".", "p", "d", "f">>,
     <<"A", "_", "B", ".", "P", "D", "F">>,
     <<"a", "b", ".", "p", "d", "f">>,
     <<"A", "b", ".", "p", "d", "f">>}

InputDir == <<"i", "n">>

CorpusID == <<"c", "_", "1">>

\* activities.go:52-64: ListPDFsActivity joins the directory and each name
\* that ends in .pdf, letter case ignored, and sorts the paths
ListPDFs(dir) == SortTexts({InputDir \o <<"/">> \o n : n \in dir})

\* workflows.go:715-721
RECURSIVE filepathBase(_)
filepathBase(path) ==
    IF \E i \in 1..Len(path) : path[i] = "/"
      THEN filepathBase(Tail(path))
      ELSE path

\* workflows.go:723-729
sanitizeID(s) ==
    LET l == ToLower(s) IN
    [i \in 1..Len(l) |-> IF l[i] \in {"_", ".", "/"} THEN "-" ELSE l[i]]

\* workflows.go:74
ChildWorkflowID(path) ==
    <<"p", "a", "p", "e", "r", "-">> \o sanitizeID(CorpusID) \o <<"-">> \o sanitizeID(filepathBase(path))

IdleChildIDs ==
    /\ cwPaths = <<>>
    /\ cwIds = <<>>

\* workflows.go:50-57: the listing of a directory of up to MaxFiles PDFs
InitChildIDs ==
    /\ \E dir \in SUBSET PDFNames :
          /\ Cardinality(dir) <= MaxFiles
          /\ cwPaths = ListPDFs(dir)
    /\ cwIds = <<>>

\* workflows.go:72-86: the child of the next path is started under its id
StartChild ==
    /\ Len(cwIds) < Len(cwPaths)
    /\ cwIds' = Append(cwIds, ChildWorkflowID(cwPaths[Len(cwIds) + 1]))
    /\ UNCHANGED cwPaths
    /\ UNCHANGED <<ingestVars, failVars, paperVars, surveyVars, fileVars, replayVars,
                   storeVars>>
    /\ UNCHANGED restChildIDs

NextChildIDs == StartChild

\* -------------------------------------------------------- KGBackfillWorkflow

KGPapers == 1..MaxKGPapers

\* kg_workflows.go:41-44
maxC == IF gMax <= 0 THEN 4 ELSE gMax

\* kg_workflows.go:46-49
KGBatchEnd == Min(gI + maxC, gPapers)

NoKGProgress ==
    [Total |-> 0, Done |-> 0, Failed |-> 0, PerPaper |-> [c \in KGPapers |-> "none"]]

IdleKGBackfill ==
    /\ gpc = "idle"
    /\ gMax = 0
    /\ gPapers = 0
    /\ gI = 0
    /\ gFut = 0
    /\ gChild = [c \in KGPapers |-> "none"]
    /\ gProgress = NoKGProgress
    /\ gResult = "none"

\* kg_workflows.go:20-35
InitKGBackfill ==
    /\ gpc = "list"
    /\ gMax \in 0..MaxKGPapers
    /\ gPapers = 0
    /\ gI = 0
    /\ gFut = 0
    /\ gChild = [c \in KGPapers |-> "none"]
    /\ gProgress = NoKGProgress
    /\ gResult = "none"

\* kg_workflows.go:36-40: the list activity fails (the workflow returns the
\* error) or returns the papers of the corpus
KGListCorpusPapers ==
    /\ gpc = "list"
    /\ \/ /\ gpc' = "done"
          /\ gResult' = "error"
          /\ UNCHANGED <<gPapers, gProgress>>
       \/ \E n \in 0..MaxKGPapers :
            /\ gPapers' = n
            /\ gProgress' = [gProgress EXCEPT !.Total = n]
            /\ gpc' = "batch"
            /\ UNCHANGED gResult
    /\ UNCHANGED <<gMax, gI, gFut, gChild>>
    /\ UNCHANGED <<ingestVars, failVars, paperVars, surveyVars, fileVars, replayVars,
                   storeVars>>
    /\ UNCHANGED restKGBackfill

\* kg_workflows.go:45-66: the loop test and the fan-out of one batch
KGStartBatch ==
    /\ gpc = "batch"
    /\ gI < gPapers
    /\ LET new == (gI + 1)..KGBatchEnd IN
        /\ gChild' = [c \in KGPapers |-> IF c \in new THEN "running" ELSE gChild[c]]
        /\ gProgress' = [gProgress EXCEPT !.PerPaper =
                [c \in KGPapers |-> IF c \in new THEN "running" ELSE @[c]]]
    /\ gFut' = 0
    /\ gpc' = "await"
    /\ UNCHANGED <<gMax, gPapers, gI, gResult>>
    /\ UNCHANGED <<ingestVars, failVars, paperVars, surveyVars, fileVars, replayVars,
                   storeVars>>
    /\ UNCHANGED restKGBackfill

\* a KGExtractPaperWorkflow child ends: with a result, or with a
\* workflow-level error
KGChildFinish(c) ==
    /\ gChild[c] = "running"
    /\ \E out \in {"completed", "failed", "error"} :
          gChild' = [gChild EXCEPT ![c] = out]
    /\ UNCHANGED <<gpc, gMax, gPapers, gI, gFut, gProgress, gResult>>
    /\ UNCHANGED <<ingestVars, failVars, paperVars, surveyVars, fileVars, replayVars,
                   storeVars>>
    /\ UNCHANGED restKGBackfill

\* kg_workflows.go:67-79: the tallies of one awaited child, and the
\* i += maxC after the last future of the batch
KGAwaitChild ==
    /\ gpc = "await"
    /\ LET c == gI + gFut + 1
           out == gChild[c]
       IN
        /\ out \notin {"none", "running"}
        /\ gProgress' = [gProgress EXCEPT
                !.Done = IF out = "error" THEN @ ELSE @ + 1,
                !.Failed = IF out # "completed" THEN @ + 1 ELSE @,
                !.PerPaper[c] = IF out = "error" THEN "failed" ELSE out]
        /\ IF c = KGBatchEnd
              THEN /\ gI' = gI + maxC
                   /\ gFut' = 0
                   /\ gpc' = "batch"
              ELSE /\ gFut' = gFut + 1
                   /\ UNCHANGED <<gI, gpc>>
    /\ UNCHANGED <<gMax, gPapers, gChild, gResult>>
    /\ UNCHANGED <<ingestVars, failVars, paperVars, surveyVars, fileVars, replayVars,
                   storeVars>>
    /\ UNCHANGED restKGBackfill

\* kg_workflows.go:45, 80: the loop ends and the workflow returns
KGBackfillReturn ==
    /\ gpc = "batch"
    /\ gI >= gPapers
    /\ gpc' = "done"
    /\ gResult' = "completed"
    /\ UNCHANGED <<gMax, gPapers, gI, gFut, gChild, gProgress>>
    /\ UNCHANGED <<ingestVars, failVars, paperVars, surveyVars, fileVars, replayVars,
                   storeVars>>
    /\ UNCHANGED restKGBackfill

NextKGBackfill ==
    \/ KGListCorpusPapers
    \/ KGStartBatch
    \/ \E c \in KGPapers : KGChildFinish(c)
    \/ KGAwaitChild
    \/ KGBackfillReturn

IdleLate == IdleClassify /\ IdleMode /\ IdleChildIDs /\ IdleKGBackfill

IdleMore == IdleReembed /\ IdleKG /\ IdleGraph /\ IdleLate


\* ----------------------------------------------------------- specifications

\* Each workflow is run on its own; the state of the others stays idle.
StartIngest == InitIngest /\ IdleFailover /\ IdlePaper /\ IdleSurvey /\ IdleFiles
    /\ IdleMore
    /\ IdleStore
    /\ IdleReplay

StartFailover == InitFailover /\ IdleIngest /\ IdlePaper /\ IdleSurvey /\ IdleFiles
    /\ IdleMore
    /\ IdleStore
    /\ IdleReplay

StartPaper == InitPaper /\ IdleIngest /\ IdleFailover /\ IdleSurvey /\ IdleFiles
    /\ IdleMore
    /\ IdleStore
    /\ IdleReplay

SpecIngest ==
    /\ StartIngest
    /\ [][NextIngest]_vars
    /\ WF_vars(NextIngest)

SpecFailover ==
    /\ StartFailover
    /\ [][NextFailover]_vars
    /\ WF_vars(NextFailover)

SpecPaper ==
    /\ StartPaper
    /\ [][NextPaper]_vars
    /\ WF_vars(NextPaper)

StartSurvey == InitSurvey /\ IdleIngest /\ IdleFailover /\ IdlePaper /\ IdleFiles
    /\ IdleMore
    /\ IdleStore
    /\ IdleReplay

SpecSurvey ==
    /\ StartSurvey
    /\ [][NextSurvey]_vars
    /\ WF_vars(NextSurvey)

StartFiles == InitFiles /\ IdleIngest /\ IdleFailover /\ IdlePaper /\ IdleSurvey
    /\ IdleMore
    /\ IdleStore
    /\ IdleReplay

StartTopics == InitTopics /\ IdleIngest /\ IdleFailover /\ IdlePaper /\ IdleFiles
    /\ IdleReplay /\ IdleStore /\ IdleMore

SpecTopics ==
    /\ StartTopics
    /\ [][NextSurvey]_vars
    /\ WF_vars(NextSurvey)

SpecFiles ==
    /\ StartFiles
    /\ [][NextFiles]_vars
    /\ WF_vars(NextFiles)

StartReplay == InitReplay /\ IdleIngest /\ IdleFailover /\ IdlePaper /\ IdleSurvey
    /\ IdleMore
    /\ IdleStore
    /\ IdleFiles

SpecReplay ==
    /\ StartReplay
    /\ [][NextReplay]_vars
    /\ WF_vars(NextReplay)

StartStore == InitStore /\ IdleIngest /\ IdleFailover /\ IdlePaper /\ IdleSurvey
    /\ IdleMore
    /\ IdleFiles /\ IdleReplay

SpecStore ==
    /\ StartStore
    /\ [][NextStore]_vars
    /\ WF_vars(NextStore)

StartSearch == StartStore

StartReembed == InitReembed /\ IdleIngest /\ IdleFailover /\ IdlePaper /\ IdleSurvey
    /\ IdleFiles /\ IdleReplay /\ IdleStore /\ IdleKG /\ IdleGraph /\ IdleLate

SpecReembed ==
    /\ StartReembed
    /\ [][NextReembed]_vars
    /\ WF_vars(NextReembed)

StartKG == InitKG /\ IdleIngest /\ IdleFailover /\ IdlePaper /\ IdleSurvey
    /\ IdleFiles /\ IdleReplay /\ IdleStore /\ IdleReembed /\ IdleGraph /\ IdleLate

SpecKG ==
    /\ StartKG
    /\ [][NextKG]_vars
    /\ WF_vars(NextKG)

StartGraph == InitGraph /\ IdleIngest /\ IdleFailover /\ IdlePaper /\ IdleSurvey
    /\ IdleFiles /\ IdleReplay /\ IdleStore /\ IdleReembed /\ IdleKG /\ IdleLate

SpecGraph ==
    /\ StartGraph
    /\ [][NextGraph]_vars
    /\ WF_vars(NextGraph)

StartClassify == InitClassify /\ IdleIngest /\ IdleFailover /\ IdlePaper /\ IdleSurvey
    /\ IdleFiles /\ IdleReplay /\ IdleStore /\ IdleReembed /\ IdleKG /\ IdleGraph
    /\ IdleMode /\ IdleChildIDs /\ IdleKGBackfill

SpecClassify ==
    /\ StartClassify
    /\ [][NextClassify]_vars
    /\ WF_vars(NextClassify)

StartMode == InitMode /\ IdleIngest /\ IdleFailover /\ IdlePaper /\ IdleSurvey
    /\ IdleFiles /\ IdleReplay /\ IdleStore /\ IdleReembed /\ IdleKG /\ IdleGraph
    /\ IdleClassify /\ IdleChildIDs /\ IdleKGBackfill

SpecMode ==
    /\ StartMode
    /\ [][NextMode]_vars
    /\ WF_vars(NextMode)

StartChildIDs == InitChildIDs /\ IdleIngest /\ IdleFailover /\ IdlePaper /\ IdleSurvey
    /\ IdleFiles /\ IdleReplay /\ IdleStore /\ IdleReembed /\ IdleKG /\ IdleGraph
    /\ IdleClassify /\ IdleMode /\ IdleKGBackfill

SpecChildIDs ==
    /\ StartChildIDs
    /\ [][NextChildIDs]_vars
    /\ WF_vars(NextChildIDs)

\* a Corpus Ingest run, or a KG Backfill run
StartProgress ==
    /\ \/ InitIngest /\ IdleKGBackfill
       \/ IdleIngest /\ InitKGBackfill
    /\ IdleFailover /\ IdlePaper /\ IdleSurvey /\ IdleFiles /\ IdleReplay /\ IdleStore
    /\ IdleReembed /\ IdleKG /\ IdleGraph /\ IdleClassify /\ IdleMode /\ IdleChildIDs

NextProgress == NextIngest \/ NextKGBackfill

SpecProgress ==
    /\ StartProgress
    /\ [][NextProgress]_vars
    /\ WF_vars(NextProgress)

SpecSearch ==
    /\ StartSearch
    /\ [][NextSearch]_vars
    /\ WF_vars(NextSearch)

\* ------------------------------------------------- claims: Corpus Ingest

Running == {c \in Paths : child[c] = "running"}

Ended(c) == child[c] \in {"processed", "failed", "error"}

ErrorChildren == {c \in Paths : child[c] = "error"}

FailedChildren == {c \in Paths : child[c] = "failed"}

\* C1: at every instant the number of started and unfinished children is at
\* most max_concurrent_children (3 when the input is <= 0), and a child of a
\* later batch is started only after every child of the earlier batches ended.
C1_BoundedConcurrency ==
    /\ Cardinality(Running) <= (IF inMax <= 0 THEN 3 ELSE inMax)
    /\ \A c, d \in Paths :
          (c < d /\ child[d] # "none") =>
              /\ child[c] # "none"
              /\ (batchOf[c] # batchOf[d] => Ended(c))

C1_Witness ==
    /\ inMax <= 0
    /\ batchOf[4] = 3
    /\ child[4] = "running"
    /\ \A c \in 1..3 : Ended(c)

\* C2 (as stated): at termination total = done + (children that ended with a
\* workflow-level error) and failed = (children that returned "failed").
C2_Original ==
    ipc = "done" =>
        /\ progress.Total = progress.Done + Cardinality(ErrorChildren)
        /\ progress.Failed = Cardinality(FailedChildren)

\* C2 (amended): at termination total = done + (children that ended with a
\* workflow-level error) and failed = (children that returned "failed") +
\* (children that ended with a workflow-level error).
C2_FanInTallies ==
    ipc = "done" =>
        /\ progress.Total = progress.Done + Cardinality(ErrorChildren)
        /\ progress.Failed = Cardinality(FailedChildren) + Cardinality(ErrorChildren)

C2_Witness ==
    /\ ipc = "done"
    /\ iResult = "completed"
    /\ ErrorChildren # {}
    /\ FailedChildren # {}
    /\ \E c \in Paths : child[c] = "processed"

Listed == ipc # "list" /\ ~iErr

\* C3: once the PDF list has been obtained, the workflow starts and awaits a
\* child for every listed path and then returns "completed" without error,
\* whatever the children's outcomes are.
C3_FanInCompletes ==
    Listed ~> (/\ ipc = "done"
               /\ iResult = "completed"
               /\ ~iErr
               /\ awaited = 1..nPaths
               /\ \A c \in 1..nPaths : Ended(c))

C3_Witness ==
    /\ ipc = "done"
    /\ iResult = "completed"
    /\ nPaths = 4
    /\ inMax = 2
    /\ child[1] = "error"
    /\ child[2] = "failed"
    /\ awaited = 1..4

\* --------------------------------------------- claims: provider failover

\* C4: once a provider index has been disabled until a time t, no provider
\* activity is invoked with that index while workflow.Now < t, in this call
\* and in the later calls on the same state.  (maxUntil[i] is the latest such
\* t, in seconds after workflow.Now, 0 once it has passed.)
C4_CooldownMonotonic == fpc = "await" => maxUntil[curIdx] = 0

\* a later call on the same state has just skipped provider 0, still disabled
C4_Witness ==
    /\ calls = 2
    /\ attempt = 1
    /\ invocations = 0
    /\ disabledUntil[0] > 0
    /\ providerCount = 2

\* C5: in a strict chunk-embed call with preferred index p >= 0 every
\* EmbedChunksActivity invocation carries provider_index = p.
C5_StrictPinsProvider ==
    (fop = "embed" /\ strict /\ preferredIdx >= 0 /\ fpc = "await") =>
        curIdx = preferredIdx

C5_Witness ==
    /\ fop = "embed"
    /\ strict
    /\ preferredIdx = 1
    /\ providerCount = 2
    /\ fpc = "await"
    /\ invocations = 4
    /\ lastErr = "transient"

Scenario3 ==
    /\ fop = "embed"
    /\ ~strict
    /\ providerCount = 2
    /\ preferredIdx <= 0
    /\ script[0] = "rate_then_quota"
    /\ script[1] = "ok"

C7_Original ==
    invocations <= (IF fop = "embed" /\ strict /\ preferredIdx >= 0
                      THEN 4 ELSE 4 * providerCount)

\* C7 (amended): a failover call makes at most max_attempts + 2 N provider
\* activity invocations (at most 4 in strict mode): up to two in-place retries
\* per provider give their attempt back.  When the attempts are used up the
\* call returns the last error (the "exhausted" error when it invoked none).
C7_InvocationBound ==
    LET pinned == fop = "embed" /\ strict /\ preferredIdx >= 0 IN
    /\ invocations <= (IF pinned THEN 4 ELSE 4 * providerCount + 2 * providerCount)
    /\ (fpc = "done" /\ attempt >= (IF pinned THEN 4 ELSE 4 * providerCount)) =>
          fResult = (IF invocations = 0 THEN "exhausted" ELSE lastErr)

C7_Witness ==
    /\ fpc = "done"
    /\ fop = "embed"
    /\ ~strict
    /\ providerCount = 2
    /\ invocations = 12
    /\ attempt = 8
    /\ fResult = "transient"

\* ------------------------------------------ claims: PaperProcessWorkflow

\* C8: once Paper Process has returned "processed" or "failed" and every
\* status update it scheduled has settled, the paper row has exactly that
\* status (and, in the no-text case, the no-text fail_reason); the updates that
\* are not awaited cannot leave the row in another status.
C8_RowMatchesResult ==
    (/\ ppc = "done"
     /\ ~pErr
     /\ pResult \in {"processed", "failed"}
     /\ pending = {}) =>
        /\ row.status = pResult
        /\ (pStatus.FailReason = NoTextReason => row.failReason = NoTextReason)

\* The steps of the pipeline, workflows.go:152-254
StepOrder ==
    << "compute_paper_id", "extract_text", "extract_metadata", "chunk_text",
       "embed_chunks", "upsert_chunks", "write_artifacts", "mark_processed" >>

\* C9: when the extract-text activity fails with the no-text error, Paper
\* Process returns "failed" with no workflow-level error and a non-empty
\* fail_reason, and invokes none of the later steps.
C9_NoTextStops ==
    (Len(results) >= 2 /\ results[2] = "no_text") =>
        /\ ppc = "done"
        /\ pResult = "failed"
        /\ ~pErr
        /\ pStatus.FailReason # ""
        /\ invoked = << "compute_paper_id", "extract_text" >>

C9_Witness ==
    /\ ppc = "done"
    /\ results = << "ok", "no_text" >>
    /\ pResult = "failed"
    /\ pending = {}

\* C10: the steps are invoked in the fixed order, each only after the previous
\* one succeeded; the result is "processed" exactly when all eight succeeded;
\* an error that is not a content error ends the workflow with a
\* workflow-level error and no later step is invoked.
C10_LinearPipeline ==
    /\ Len(invoked) \in 1..Len(StepOrder)
    /\ invoked = SubSeq(StepOrder, 1, Len(invoked))
    /\ Len(results) \in {Len(invoked) - 1, Len(invoked)}
    /\ \A i \in 2..Len(invoked) : results[i - 1] = "ok"
    /\ (pResult = "processed") <=>
          (Len(results) = Len(StepOrder) /\ \A i \in 1..Len(results) : results[i] = "ok")
    /\ pResult = "processed" => (ppc = "done" /\ ~pErr)
    /\ \A i \in 1..Len(results) :
          results[i] = "err" =>
             (ppc = "done" /\ pErr /\ pResult = "" /\ Len(invoked) = i)

C10_Witness ==
    /\ ppc = "done"
    /\ pResult = "processed"
    /\ invoked = StepOrder
    /\ invocations > 1

\* ------------------------------------------- claims: SurveyBuildWorkflow

\* C11: the LLM failover engine is called a second time exactly when the
\* first call returned Context, and never a third time; when the second call
\* fails too, the report is built with the generation note and its write is
\* started instead of an error being returned.
C11_RetryOnceOnContext ==
    /\ Len(sSent) <= 2
    /\ Len(sTypes) <= Len(sSent)
    /\ Len(sTypes) >= 1 => (Len(sSent) = 2 <=> sTypes[1] = "context")
    /\ (Len(sTypes) = 2 /\ sTypes[2] # "ok") =>
          /\ sNote = "yes"
          /\ spc \in {"write_report", "update_completed", "done"}
          /\ (sErr => sReport = "none")

C11_Witness ==
    /\ spc = "done"
    /\ Len(sTypes) = 2
    /\ sTypes[1] = "context"
    /\ sTypes[2] = "quota"
    /\ sNote = "yes"
    /\ sReport = "written"
    /\ sResult = "path"

\* C12: when the first generation call is classified Context, the retry is
\* issued with a context window of half as many entries as the original one
\* (rounded either way).
C12_RetryHalvesWindow ==
    Len(sSent) = 2 =>
        (sSent[2] = sSent[1] \div 2 \/ sSent[2] = (sSent[1] + 1) \div 2)

C14_SummaryWrittenWhenCompleted ==
    (ipc = "done" /\ iResult = "completed") => summary = "written"

Complete(c) == c = OldContent \/ \E w \in Writers : c = NewContent(w)

\* C15: at every moment the final name holds no file, the complete previous
\* content or the complete content of one writer, also when a write fails
\* midway or two writes overlap; a temporary file never has the final name.
C15_AtomicArtifact ==
    /\ files[FinalName] = NoFile \/ Complete(files[FinalName])
    /\ \A w \in Writers : TempName(w) # FinalName
    /\ \A w \in Writers : wpc[w] = "done" => Complete(files[FinalName])

\* both writers overlapped, one failed midway, the other's file is in place
C15_Witness ==
    /\ wpc[1] = "failed"
    /\ wPos[1] = 1
    /\ files[TempName(1)] = <<1>>
    /\ wpc[2] = "done"
    /\ files[FinalName] = NewContent(2)

\* ------------------------------------------------ claims: replay determinism

IsPrefix(a, b) == Len(a) <= Len(b) /\ SubSeq(b, 1, Len(a)) = a

RowsOf(tbl, p) == {r \in tbl : r.paper = p}

WithoutVector(r) == [r EXCEPT !.vec = NoVec]

\* The rows of paper p are the same before and after the step but for the
\* vector, and a vector changed only where the run produced a new embedding
SameButVector(p) ==
    /\ {WithoutVector(r) : r \in RowsOf(chunks', p)} =
         {WithoutVector(r) : r \in RowsOf(chunks, p)}
    /\ \A r \in RowsOf(chunks, p), n \in RowsOf(chunks', p) :
         (r.id = n.id /\ r.vec # n.vec) => n.id \in lastRun'.fresh

\* A completed Paper Process run on a paper whose last completed run had the
\* same chunk size, overlap and chunk_version
Rerun == runs' = runs + 1 /\ lastRun'.ok /\ lastRun'.same

C18_LabelMatchesVector ==
    \A r \in chunks : r.vec = NoVec \/ r.vec.ver = r.ver

\* C19: every chunk a search for corpus c and embedding_version v returns
\* belongs to corpus c and has embedding_version exactly v.
C19_SearchRestricted ==
    \A r \in found.rows : r.corpus = found.corpus /\ r.ver = found.ver

\* C20: after a REEMBED_ALL_PAPERS backfill with embed_version v2, all of
\* whose children completed, over a corpus embedded under v1 with the same
\* chunk_version, every chunk has a row for v1 and a row for v2, and a search
\* filtered by v2 returns only vectors written by the backfill.
C20_BothVersionsAfterBackfill ==
    (bpc = "done" /\ bPre /\ processed = Len(bList)) =>
        /\ \A r \in chunks : r.corpus = bInput.corpus =>
              \A v \in {"v1", "v2"} :
                 \E x \in chunks : /\ x.paper = r.paper
                                   /\ x.index = r.index
                                   /\ x.ver = v
        /\ \A x \in Matching(bInput.corpus, "v2") : x.vec.by = "backfill"

\* ------------------------------------------------- claims: backfill providers

\* C21: all EmbedChunksActivity invocations of a REEMBED_ALL_PAPERS backfill
\* carry one provider index.
C21_OneProviderIndex == Cardinality(reUsed \cup InvokedIdx) <= 1

\* ------------------------------------------------- claims: KG Extract Paper

LastMark == kMarks[Len(kMarks)]

C23_NoUpsertWhenAllFailed ==
    (kListed /\ kChunks > 0 /\ kI = kChunks /\ llmFailures = kChunks) =>
        /\ kpc # "upsert"
        /\ kUpsert = "none"
        /\ kpc = "done" => LastMark = KGRun("failed", 0)

C23_Witness ==
    /\ kpc = "done"
    /\ kChunks = 1
    /\ llmFailures = 1
    /\ kUpsert = "none"
    /\ kMarks = <<KGRun("running", 0), KGRun("failed", 0)>>

\* ------------------------------------------------------ claims: graph edges

DistinctEntries(q) == {q[i] : i \in 1..Len(q)}

\* C24: after any sequence of graph-triple upserts each edge's support_count
\* equals the number of distinct provenance entries attached to the edge.
C24_SupportCountsProvenance ==
    \A k \in EdgeKeys : edges[k].support = Cardinality(DistinctEntries(edges[k].prov))

\* C25: every provider activity invocation of a failover call is followed by
\* one audit log activity: whenever the call is between invocations or has
\* returned, the audit log holds one row for each invocation made, the row
\* of the latest invocation carrying its outcome.
C25_AuditPerInvocation ==
    (Recording /\ fpc \in {"loop", "done"}) => Len(auditLog) = invocations

\* the triggers of each error kind, in the order in which the kinds are tried
KindOrder == <<"quota", "rate", "context", "transient">>

TriggersOf(kind) ==
    CASE kind = "quota" -> {TxtQuota, TxtCredit, TxtInsufficient}
      [] kind = "rate" -> {TxtRate, Txt429}
      [] kind = "context" -> {TxtContext, TxtTooLong}
      [] kind = "transient" -> {TxtTimeout, TxtTemporarily, TxtUnavailable}

HasTrigger(e, kind) == \E t \in TriggersOf(kind) : Contains(ToLower(e), t)

\* C26: ClassifyError gives a non-nil error one of the five kinds: the first
\* of Quota, Rate, Context, Transient that has one of its triggers in the
\* text, letter case ignored, and Permanent when the text has no trigger.
C26_ClassifyByFirstTrigger ==
    (cePc = "done" /\ ~ceNil) =>
        /\ ceKind \in ErrorKinds
        /\ \A i \in 1..Len(KindOrder) :
              (/\ HasTrigger(ceText, KindOrder[i])
               /\ \A j \in 1..(i - 1) : ~HasTrigger(ceText, KindOrder[j]))
              => ceKind = KindOrder[i]
        /\ (\A i \in 1..Len(KindOrder) : ~HasTrigger(ceText, KindOrder[i]))
              => ceKind = "permanent"

\* a text with a Rate trigger in upper case before a Context trigger, and no
\* Quota trigger, has been classified Rate
C26_Witness ==
    /\ cePc = "done"
    /\ ceVia = "embed"
    /\ ceText = TxtUpperRate \o TxtSep \o TxtContextTooLong
    /\ ceKind = "rate"

\* C27: a provider error with a Context trigger and no Quota trigger, returned
\* through LLMGenerateActivity, is classified Context by callLLMWithFailover.
C27_ContextTagReturned ==
    (/\ cePc = "done"
     /\ ceVia = "llm"
     /\ ~ceNil
     /\ HasTrigger(ceProv, "context")
     /\ ~HasTrigger(ceProv, "quota")) => ceKind = "context"

\* C28: a Backfill run whose mode is none of the three known modes returns an
\* error, having invoked no activity, started no child workflow and written
\* no manifest.
C28_UnknownModeNoEffects ==
    (/\ mpc = "done"
     /\ ToUpper(TrimSpaceText(mMode))
            \notin {ModeRetryFailed, ModeReembedAll, ModeRegenerateSurvey})
    => /\ mResult = "error"
       /\ mActs = <<>>
       /\ mKids = 0
       /\ ~mManifest

\* a mode that is a known mode followed by one more character was rejected
C28_Witness ==
    /\ mpc = "done"
    /\ mMode = ModeReembedAll \o <<"_">>
    /\ mResult = "error"
    /\ mActs = <<>>

\* a Paper Process run on paper p whose embed call returned its vectors, on a
\* paper stored before under another chunk version
Rechunk(p) ==
    /\ lastOf[p] # NoInput
    /\ \E c \in Corpora, in \in RunInputs, nvec \in 0..4, by \in {"run", "backfill"} :
        /\ in.cv # lastOf[p].cv
        /\ RunPaper(p, c, in, TRUE, nvec, by)

\* C29: re-processing an ingested paper under a different chunk version
\* upserts its chunks: the run's UpsertChunksActivity succeeds.
C29_RechunkUpserts == [][\A p \in Papers : Rechunk(p) => lastRun'.ok]_vars

\* the provider activity in flight failed with a Rate error
RateFailure == fpc = "await" /\ fpc' = "loop" /\ lastErr' = "rate"

\* C30: in every failover operation the k-th Rate failure of a provider
\* within a call, k <= 2, is followed by a sleep of 2 k seconds and a retry on
\* the same provider index, and the third disables the provider for two
\* minutes.
C30_RateBackoff ==
    [][RateFailure =>
         LET k == retryCounts'[curIdx] IN
           /\ k <= 2 => /\ Recording => sleeps' = Append(sleeps, 2 * k)
                        /\ disabledUntil'[curIdx] = 0
                        /\ CandidateIdx' = curIdx
           /\ k = 3 => disabledUntil'[curIdx] = RateDisableSeconds]_vars

\* the provider activity in flight failed with a Transient error
TransientFailure == fpc = "await" /\ fpc' = "loop" /\ lastErr' = "transient"

\* C31: in every failover operation a Transient failure disables no
\* provider: no provider's disabled_until moves later, and the provider that
\* failed is free to be invoked again.
C31_TransientNeverDisables ==
    [][TransientFailure =>
         /\ \A p \in Prov : disabledUntil'[p] <= disabledUntil[p]
         /\ disabledUntil'[curIdx] = 0]_vars

\* ------------------------------------------------- claims: failover, topics

\* C32: when Survey Build completes successfully on an input with n >= 1
\* topics, the progress counts n topics and n of them done.
C32_AllTopicsDone ==
    (spc = "done" /\ ~sErr /\ sInput.topics >= 1) =>
        /\ sProgress.TotalTopics = sInput.topics
        /\ sProgress.DoneTopics = sInput.topics

\* C33: KG Extract Paper issues the running mark before any chunk is sent to
\* the LLM, and when it has terminated the stored run record holds the status
\* completed or failed, the one the workflow returned.
C33_RunRecordFollowsResult ==
    /\ kpc \in {"llm", "loop", "upsert", "mark", "done"} =>
          (kMarks # <<>> /\ kMarks[1].status = "running")
    /\ kpc = "done" =>
          /\ kRow.status \in {"completed", "failed"}
          /\ kRow.status = kResult

\* C34: every failover call terminates: a provider fails at most six times in
\* a call (four attempt slots and the two in-place retries that give their
\* slot back), and a call that is in its loop returns.
C34_CallTerminates ==
    /\ [](\A p \in Prov : retryCounts[p] <= 4 + 2)
    /\ (fpc = "loop") ~> (fpc = "done")

\* a call has returned after one provider failed six times without being
\* disabled
C34_Witness ==
    /\ fpc = "done"
    /\ \E p \in Prov : retryCounts[p] = 6 /\ disabledUntil[p] = 0

\* C35: when Paper Process has ended with a workflow-level error after the
\* paper id was computed, and its status updates have settled, the paper row
\* holds status failed with a fail_reason, which is what ListFailedPapers
\* selects.
C35_ErrorMarksFailed ==
    (/\ ppc = "done"
     /\ pErr
     /\ Len(results) >= 1 /\ results[1] = "ok"
     /\ pending = {}) =>
        /\ row.status = "failed"
        /\ row.failReason # ""

\* C36: within one Corpus Ingest run no two paths of the directory get the
\* same child workflow id.
C36_DistinctChildIDs ==
    \A i, j \in 1..Len(cwIds) : cwIds[i] = cwIds[j] => i = j

\* C37: a failover call that has returned an error invoked the provider
\* activity at least once during the call.
C37_ErrorAfterInvocation ==
    (fpc = "done" /\ fResult # "ok") => invocations >= 1

\* C38: the counter of the backfill manifest (retried_failed_papers,
\* reembedded_papers) is the number of papers whose Paper Process child
\* returned "processed".
C38_ManifestCountsProcessed ==
    (mpc = "done" /\ mManifest) => mCount = mGood

\* ------------------------------------------------ claims: progress queries

KGErrorChildren == {c \in KGPapers : gChild[c] = "error"}

\* what the progress query of either workflow may show
ProgressBounds(pr, errors, done) ==
    /\ pr.Done <= pr.Total
    /\ pr.Failed <= pr.Total
    /\ pr.Done + errors <= pr.Total
    /\ done => \A c \in DOMAIN pr.PerPaper : pr.PerPaper[c] \notin {"processing", "running"}

\* C39: in every state of Corpus Ingest and of KG Backfill, done <= total,
\* failed <= total, done plus the children that ended with an error is at
\* most total, and done and failed never decrease; when the workflow has
\* terminated no per-paper entry is left processing or running.
C39_ProgressBounds ==
    /\ [](/\ ipc \notin {"idle", "list"} =>
               ProgressBounds(progress, Cardinality(ErrorChildren), ipc = "done")
          /\ gpc \notin {"idle", "list"} =>
               ProgressBounds(gProgress, Cardinality(KGErrorChildren), gpc = "done"))
    /\ [][/\ progress'.Done >= progress.Done
          /\ progress'.Failed >= progress.Failed
          /\ gProgress'.Done >= gProgress.Done
          /\ gProgress'.Failed >= gProgress.Failed]_vars

\* a KG Backfill run has terminated with all its papers counted failed, one
\* of them for a child that ended with an error
C39_Witness ==
    /\ gpc = "done"
    /\ gProgress.Total = MaxKGPapers
    /\ gProgress.Failed = MaxKGPapers
    /\ gProgress.Done = MaxKGPapers - 1
    /\ gChild[1] = "error"

\* C40: when Survey Build has terminated, with a result or with an error,
\* the stored status of the survey run is no longer running, and it is
\* completed exactly when an artifact path was returned.
C40_RunStatusSettled ==
    spc = "done" =>
        /\ runStatus.status # "running"
        /\ runStatus.status = "completed" <=> sResult = "path"

====
